---- MODULE Spec2Model ----
(***************************************************************************)
(* Model of tone-labs/dewey, package filter: the typed field filter        *)
(* builders (string, bool, time), the filter declaration registry          *)
(* (BuildFilterMap) and the structured filter evaluator                    *)
(* (ApplyStructuredFilters / buildPredicate / toString).                   *)
(*                                                                         *)
(* Go values of type `any` are records tagged with their dynamic type.     *)
(* Go strings carried as filter values are sequences of one-character      *)
(* strings, so that parsing can look at them.  A predicate P is the term   *)
(* built by the caller-supplied atoms and combinators; every function      *)
(* returns its predicate together with the calls it made, in call order,   *)
(* and whether it returned normally (ok) or panicked.                      *)
(***************************************************************************)
EXTENDS Integers, Sequences, FiniteSets, TLC

VARIABLES fields, registry, group, query, pc, result, calls, failed,
          evals, params, ret

vars == <<fields, registry, group, query, pc, result, calls, failed, evals, params, ret>>

\* ------------------------------------------------------------------ values

ZeroTime == <<1, 1, 1, 0, 0, 0, 0>>

Val(t, s, b, n, tm, l) == [t |-> t, s |-> s, b |-> b, n |-> n, tm |-> tm, l |-> l]

Nil == Val("nil", <<>>, FALSE, 0, ZeroTime, <<>>)

Str(s) == Val("string", s, FALSE, 0, ZeroTime, <<>>)

Bool(b) == Val("bool", <<>>, b, 0, ZeroTime, <<>>)

IntV(n) == Val("int", <<>>, FALSE, n, ZeroTime, <<>>)

Time(tm) == Val("time", <<>>, FALSE, 0, tm, <<>>)

List(l) == Val("list", <<>>, FALSE, 0, ZeroTime, l)

\* A []string held in an `any`: a slice of a concrete element type, which is
\* not a []any.
StringSlice(l) == Val("[]string", <<>>, FALSE, 0, ZeroTime, l)

\* -------------------------------------------------------------- predicates

Term(k, f, op, arg, args) == [k |-> k, f |-> f, op |-> op, arg |-> arg, args |-> args]

NoP == Term("none", "", "", Nil, <<>>)

Atom(f, op, arg) == Term("atom", f, op, arg, <<>>)

Comb(op, args) == Term("comb", "", op, Nil, args)

MethodCall(f, op, arg) == Term("method", f, op, arg, <<>>)

WhereCall(p) == Term("where", "", "Where", Nil, <<p>>)

Ret(p, cs) == [p |-> p, calls |-> cs, ok |-> TRUE]

Panic(cs) == [p |-> NoP, calls |-> cs, ok |-> FALSE]

\* A caller-supplied atomic predicate constructor of the predicates struct
\* `preds`, invoked with `arg`.
CallAtom(preds, op, arg) == Ret(Atom(preds, op, arg), <<Atom(preds, op, arg)>>)

\* A caller-supplied combinator invoked on the results of two argument
\* expressions, which Go evaluates left to right before the call.
CallComb2(op, r1, r2) ==
    Ret(Comb(op, <<r1.p, r2.p>>),
        r1.calls \o r2.calls \o <<Comb(op, <<r1.p, r2.p>>)>>)

\* A caller-supplied combinator invoked on a slice of predicates.
CallComb(op, ps) == Ret(Comb(op, ps), <<Comb(op, ps)>>)

Combinators == [Or |-> "Combinators.Or", And |-> "Combinators.And"]

PredicateBuilder == [Or |-> "PredicateBuilder.Or", And |-> "PredicateBuilder.And"]

\* cfg.Where of the mock query: appends the predicate to the query.
Where(q, p) == Append(q, p)

\* v.(string) and v.(bool): the checked type assertions.
IsString(v) == v.t = "string"

IsBool(v) == v.t = "bool"

AllString(values) == \A i \in 1..Len(values) : IsString(values[i])

AllBool(values) == \A i \in 1..Len(values) : IsBool(values[i])

\* ---------------------------------------------------- StringFilterBuilder

newStringFilterWithCombinators(predicates, combinators, nullable) ==
    [Kind |-> "string", predicates |-> predicates,
     combinators |-> combinators, nullable |-> nullable]

StringFilterBuilder_Eq(b, value) ==
    IF IsString(value) THEN CallAtom(b.predicates, "Eq", value) ELSE Panic(<<>>)

StringFilterBuilder_Ne(b, value) ==
    IF IsString(value) THEN CallAtom(b.predicates, "Ne", value) ELSE Panic(<<>>)

StringFilterBuilder_Gt(b, value) ==
    IF IsString(value) THEN CallAtom(b.predicates, "Gt", value) ELSE Panic(<<>>)

StringFilterBuilder_Gte(b, value) ==
    IF IsString(value) THEN CallAtom(b.predicates, "Gte", value) ELSE Panic(<<>>)

StringFilterBuilder_Lt(b, value) ==
    IF IsString(value) THEN CallAtom(b.predicates, "Lt", value) ELSE Panic(<<>>)

StringFilterBuilder_Lte(b, value) ==
    IF IsString(value) THEN CallAtom(b.predicates, "Lte", value) ELSE Panic(<<>>)

StringFilterBuilder_In(b, values) ==
    IF AllString(values.l) THEN CallAtom(b.predicates, "In", values) ELSE Panic(<<>>)

StringFilterBuilder_Nin(b, values) ==
    IF AllString(values.l) THEN CallAtom(b.predicates, "Nin", values) ELSE Panic(<<>>)

StringFilterBuilder_Contains(b, value) == CallAtom(b.predicates, "Contains", value)

StringFilterBuilder_StartsWith(b, value) == CallAtom(b.predicates, "StartsWith", value)

StringFilterBuilder_EndsWith(b, value) == CallAtom(b.predicates, "EndsWith", value)

\* IsNull that answers with the single atom Eq("") for a non-nullable field.
StringFilterBuilder_IsNull_EqOnly(b) ==
    IF b.nullable
    THEN CallAtom(b.predicates, "IsNil", Nil)
    ELSE CallAtom(b.predicates, "Eq", Str(<<>>))

StringFilterBuilder_IsNull(b) ==
    IF b.nullable
    THEN CallAtom(b.predicates, "IsNil", Nil)
    ELSE CallComb2(b.combinators.And,
                   CallAtom(b.predicates, "Eq", Str(<<>>)),
                   CallAtom(b.predicates, "Ne", Str(<<>>)))

\* IsNotNull that synthesises the tautology for a nullable field too.
StringFilterBuilder_IsNotNull_Synthesised(b) ==
    CallComb2(b.combinators.Or,
              CallAtom(b.predicates, "Eq", Str(<<>>)),
              CallAtom(b.predicates, "Ne", Str(<<>>)))

StringFilterBuilder_IsNotNull(b) ==
    IF b.nullable
    THEN CallAtom(b.predicates, "IsNotNil", Nil)
    ELSE CallComb2(b.combinators.Or,
                   CallAtom(b.predicates, "Eq", Str(<<>>)),
                   CallAtom(b.predicates, "Ne", Str(<<>>)))

\* ------------------------------------------------------ BoolFilterBuilder

newBoolFilterWithCombinators(predicates, combinators) ==
    [Kind |-> "bool", predicates |-> predicates,
     combinators |-> combinators, nullable |-> FALSE]

BoolFilterBuilder_Eq(b, value) ==
    IF IsBool(value) THEN CallAtom(b.predicates, "Eq", value) ELSE Panic(<<>>)

\* Ne that takes a value that is no bool for false instead of panicking
\* (the two-result form of the type assertion).
BoolFilterBuilder_Ne_Lenient(b, value) ==
    CallAtom(b.predicates, "Ne", IF IsBool(value) THEN value ELSE Bool(FALSE))

BoolFilterBuilder_Ne(b, value) ==
    IF IsBool(value) THEN CallAtom(b.predicates, "Ne", value) ELSE Panic(<<>>)

BoolFilterBuilder_Gt(b, value) ==
    IF IsBool(value) THEN CallAtom(b.predicates, "Eq", value) ELSE Panic(<<>>)

BoolFilterBuilder_Gte(b, value) ==
    IF IsBool(value) THEN CallAtom(b.predicates, "Eq", value) ELSE Panic(<<>>)

\* Lt that answers with Ne, as "below true" would suggest.
BoolFilterBuilder_Lt_AsNe(b, value) ==
    IF IsBool(value) THEN CallAtom(b.predicates, "Ne", value) ELSE Panic(<<>>)

BoolFilterBuilder_Lt(b, value) ==
    IF IsBool(value) THEN CallAtom(b.predicates, "Eq", value) ELSE Panic(<<>>)

BoolFilterBuilder_Lte(b, value) ==
    IF IsBool(value) THEN CallAtom(b.predicates, "Eq", value) ELSE Panic(<<>>)

\* The classification loop of In and Nin: hasTrue, hasFalse.
HasTrue(values) == \E i \in 1..Len(values) : values[i].b

HasFalse(values) == \E i \in 1..Len(values) : ~values[i].b

\* The answer of In for the empty input, built with Or in place of And.
BoolAlwaysFalse_Or(b) ==
    CallComb2(b.combinators.Or,
              CallAtom(b.predicates, "Eq", Bool(TRUE)),
              CallAtom(b.predicates, "Eq", Bool(FALSE)))

BoolAlwaysFalse(b) ==
    CallComb2(b.combinators.And,
              CallAtom(b.predicates, "Eq", Bool(TRUE)),
              CallAtom(b.predicates, "Eq", Bool(FALSE)))

BoolAlwaysTrue(b) ==
    CallComb2(b.combinators.Or,
              CallAtom(b.predicates, "Eq", Bool(TRUE)),
              CallAtom(b.predicates, "Eq", Bool(FALSE)))

\* In that answers for the last element of its input only.
BoolFilterBuilder_In_Last(b, values) ==
    IF Len(values.l) = 0 THEN BoolAlwaysFalse(b)
    ELSE IF ~AllBool(values.l) THEN Panic(<<>>)
    ELSE CallAtom(b.predicates, "Eq", values.l[Len(values.l)])

BoolFilterBuilder_In(b, values) ==
    IF Len(values.l) = 0 THEN BoolAlwaysFalse(b)
    ELSE IF ~AllBool(values.l) THEN Panic(<<>>)
    ELSE IF HasTrue(values.l) /\ HasFalse(values.l) THEN BoolAlwaysTrue(b)
    ELSE IF HasTrue(values.l) THEN CallAtom(b.predicates, "Eq", Bool(TRUE))
    ELSE CallAtom(b.predicates, "Eq", Bool(FALSE))

\* Nin whose answers for the empty input and for an input with both
\* booleans are exchanged.
BoolFilterBuilder_Nin_Swapped(b, values) ==
    IF Len(values.l) = 0 THEN BoolAlwaysFalse(b)
    ELSE IF ~AllBool(values.l) THEN Panic(<<>>)
    ELSE IF HasTrue(values.l) /\ HasFalse(values.l) THEN BoolAlwaysTrue(b)
    ELSE IF HasTrue(values.l) THEN CallAtom(b.predicates, "Eq", Bool(FALSE))
    ELSE CallAtom(b.predicates, "Eq", Bool(TRUE))

\* Nin with the three answers of In for a non-empty input.
BoolFilterBuilder_Nin_LikeIn(b, values) ==
    IF Len(values.l) = 0 THEN BoolAlwaysTrue(b)
    ELSE IF ~AllBool(values.l) THEN Panic(<<>>)
    ELSE IF HasTrue(values.l) /\ HasFalse(values.l) THEN BoolAlwaysTrue(b)
    ELSE IF HasTrue(values.l) THEN CallAtom(b.predicates, "Eq", Bool(TRUE))
    ELSE CallAtom(b.predicates, "Eq", Bool(FALSE))

BoolFilterBuilder_Nin(b, values) ==
    IF Len(values.l) = 0 THEN BoolAlwaysTrue(b)
    ELSE IF ~AllBool(values.l) THEN Panic(<<>>)
    ELSE IF HasTrue(values.l) /\ HasFalse(values.l) THEN BoolAlwaysFalse(b)
    ELSE IF HasTrue(values.l) THEN CallAtom(b.predicates, "Eq", Bool(FALSE))
    ELSE CallAtom(b.predicates, "Eq", Bool(TRUE))

BoolFilterBuilder_Contains(b, value) == BoolAlwaysTrue(b)

BoolFilterBuilder_StartsWith(b, value) == BoolAlwaysTrue(b)

BoolFilterBuilder_EndsWith(b, value) == BoolAlwaysTrue(b)

BoolFilterBuilder_IsNull(b) == BoolAlwaysFalse(b)

BoolFilterBuilder_IsNotNull(b) == BoolAlwaysTrue(b)

\* ------------------------------------------------------ TimeFilterBuilder
\* A time.Time is <<year, month, day, hour, minute, second, zone offset in
\* minutes>>; time.Time{} is ZeroTime.

Digits == <<"0", "1", "2", "3", "4", "5", "6", "7", "8", "9">>

IsDigit(c) == \E i \in 1..10 : Digits[i] = c

DigitVal(c) == (CHOOSE i \in 1..10 : Digits[i] = c) - 1

AllDigits(s, from, to) == \A i \in from..to : IsDigit(s[i])

Num2(s, i) == 10 * DigitVal(s[i]) + DigitVal(s[i + 1])

Num4(s, i) == 100 * Num2(s, i) + Num2(s, i + 2)

IsLeap(y) == y % 4 = 0 /\ (y % 100 # 0 \/ y % 400 = 0)

DaysIn(m, y) ==
    IF m = 2 THEN (IF IsLeap(y) THEN 29 ELSE 28)
    ELSE IF m \in {4, 6, 9, 11} THEN 30 ELSE 31

\* The date part "2006-01-02" at the head of s: four, two and two digits
\* separated by "-", a month of the year and a day of that month.
DateOk(s) ==
    /\ Len(s) >= 10
    /\ AllDigits(s, 1, 4) /\ s[5] = "-"
    /\ AllDigits(s, 6, 7) /\ s[8] = "-"
    /\ AllDigits(s, 9, 10)
    /\ Num2(s, 6) \in 1..12
    /\ Num2(s, 9) \in 1..DaysIn(Num2(s, 6), Num4(s, 1))

\* The clock part "T15:04:05" at positions 11..19 of s.
ClockOk(s) ==
    /\ Len(s) >= 19
    /\ s[11] = "T"
    /\ AllDigits(s, 12, 13) /\ s[14] = ":"
    /\ AllDigits(s, 15, 16) /\ s[17] = ":"
    /\ AllDigits(s, 18, 19)
    /\ Num2(s, 12) \in 0..23 /\ Num2(s, 15) \in 0..59 /\ Num2(s, 18) \in 0..59

\* The zone part "Z07:00" from position 20 of s: "Z", or a sign and hh:mm.
ZoneOk(s) ==
    \/ Len(s) = 20 /\ s[20] = "Z"
    \/ /\ Len(s) = 25
       /\ s[20] \in {"+", "-"}
       /\ AllDigits(s, 21, 22) /\ s[23] = ":" /\ AllDigits(s, 24, 25)
       /\ Num2(s, 21) \in 0..23 /\ Num2(s, 24) \in 0..59

ZoneOffset(s) ==
    IF Len(s) = 20 THEN 0
    ELSE (IF s[20] = "-" THEN -1 ELSE 1) * (60 * Num2(s, 21) + Num2(s, 24))

\* time.Parse(time.RFC3339, s), for strings without fractional seconds.
ParseRFC3339(s) ==
    IF DateOk(s) /\ ClockOk(s) /\ ZoneOk(s)
    THEN [t |-> <<Num4(s, 1), Num2(s, 6), Num2(s, 9),
                  Num2(s, 12), Num2(s, 15), Num2(s, 18), ZoneOffset(s)>>,
          err |-> FALSE]
    ELSE [t |-> ZeroTime, err |-> TRUE]

\* time.Parse("2006-01-02", s).
ParseDate(s) ==
    IF Len(s) = 10 /\ DateOk(s)
    THEN [t |-> <<Num4(s, 1), Num2(s, 6), Num2(s, 9), 0, 0, 0, 0>>, err |-> FALSE]
    ELSE [t |-> ZeroTime, err |-> TRUE]

\* The string case of parseTimeValue: the first layout that parses wins.
FirstParsed(rfc3339, date) ==
    IF ~rfc3339.err THEN rfc3339
    ELSE IF ~date.err THEN date
    ELSE [t |-> ZeroTime, err |-> TRUE]

parseTimeValue(value) ==
    IF value.t = "time" THEN [t |-> value.tm, err |-> FALSE]
    ELSE IF value.t = "string"
    THEN FirstParsed(ParseRFC3339(value.s), ParseDate(value.s))
    ELSE [t |-> ZeroTime, err |-> TRUE]

newTimeFilterWithCombinators(predicates, combinators, nullable) ==
    [Kind |-> "time", predicates |-> predicates,
     combinators |-> combinators, nullable |-> nullable]

\* Eq that lets an unparseable time reach the caller as a panic.
TimeFilterBuilder_Eq_Strict(b, value) ==
    IF parseTimeValue(value).err THEN Panic(<<>>)
    ELSE CallAtom(b.predicates, "Eq", Time(parseTimeValue(value).t))

TimeFilterBuilder_Eq(b, value) ==
    CallAtom(b.predicates, "Eq", Time(parseTimeValue(value).t))

TimeFilterBuilder_Ne(b, value) ==
    CallAtom(b.predicates, "Ne", Time(parseTimeValue(value).t))

TimeFilterBuilder_Gt(b, value) ==
    CallAtom(b.predicates, "Gt", Time(parseTimeValue(value).t))

TimeFilterBuilder_Gte(b, value) ==
    CallAtom(b.predicates, "Gte", Time(parseTimeValue(value).t))

\* Lt that propagates the error of parseTimeValue as a panic.
TimeFilterBuilder_Lt_Strict(b, value) ==
    IF parseTimeValue(value).err THEN Panic(<<>>)
    ELSE CallAtom(b.predicates, "Lt", Time(parseTimeValue(value).t))

TimeFilterBuilder_Lt(b, value) ==
    CallAtom(b.predicates, "Lt", Time(parseTimeValue(value).t))

TimeFilterBuilder_Lte(b, value) ==
    CallAtom(b.predicates, "Lte", Time(parseTimeValue(value).t))

\* The loop of In and Nin: times[i] = parseTimeValue(values[i]), errors dropped.
\* The loop that leaves the elements parseTimeValue rejects out of times.
ParseTimes_SkipFailed(values) ==
    [i \in 1..Len(SelectSeq(values, LAMBDA v : ~parseTimeValue(v).err)) |->
       Time(parseTimeValue(SelectSeq(values, LAMBDA v : ~parseTimeValue(v).err)[i]).t)]

ParseTimes(values) == [i \in 1..Len(values) |-> Time(parseTimeValue(values[i]).t)]

TimeFilterBuilder_In(b, values) ==
    CallAtom(b.predicates, "In", List(ParseTimes(values.l)))

TimeFilterBuilder_Nin(b, values) ==
    CallAtom(b.predicates, "Nin", List(ParseTimes(values.l)))

TimeFilterBuilder_Contains(b, value) == CallAtom(b.predicates, "Gte", Time(ZeroTime))

TimeFilterBuilder_StartsWith(b, value) == CallAtom(b.predicates, "Gte", Time(ZeroTime))

\* EndsWith that reads its argument as a time.
TimeFilterBuilder_EndsWith_Parsed(b, value) ==
    CallAtom(b.predicates, "Gte", Time(parseTimeValue(value).t))

TimeFilterBuilder_EndsWith(b, value) == CallAtom(b.predicates, "Gte", Time(ZeroTime))

\* IsNull that combines with Or where And is meant.
TimeFilterBuilder_IsNull_Or(b) ==
    IF b.nullable
    THEN CallAtom(b.predicates, "IsNil", Nil)
    ELSE CallComb2(b.combinators.Or,
                   CallAtom(b.predicates, "Eq", Time(ZeroTime)),
                   CallAtom(b.predicates, "Ne", Time(ZeroTime)))

TimeFilterBuilder_IsNull(b) ==
    IF b.nullable
    THEN CallAtom(b.predicates, "IsNil", Nil)
    ELSE CallComb2(b.combinators.And,
                   CallAtom(b.predicates, "Eq", Time(ZeroTime)),
                   CallAtom(b.predicates, "Ne", Time(ZeroTime)))

TimeFilterBuilder_IsNotNull(b) ==
    IF b.nullable
    THEN CallAtom(b.predicates, "IsNotNil", Nil)
    ELSE CallComb2(b.combinators.Or,
                   CallAtom(b.predicates, "Eq", Time(ZeroTime)),
                   CallAtom(b.predicates, "Ne", Time(ZeroTime)))

\* ------------------------------------------- FieldFilterBuilder interface
\* A call of method m of the builder behind the interface value b: the
\* call is recorded, then the method of b's concrete type runs.

StringMethod(b, m, arg) ==
    CASE m = "Eq" -> StringFilterBuilder_Eq(b, arg)
      [] m = "Ne" -> StringFilterBuilder_Ne(b, arg)
      [] m = "Gt" -> StringFilterBuilder_Gt(b, arg)
      [] m = "Gte" -> StringFilterBuilder_Gte(b, arg)
      [] m = "Lt" -> StringFilterBuilder_Lt(b, arg)
      [] m = "Lte" -> StringFilterBuilder_Lte(b, arg)
      [] m = "In" -> StringFilterBuilder_In(b, arg)
      [] m = "Nin" -> StringFilterBuilder_Nin(b, arg)
      [] m = "Contains" -> StringFilterBuilder_Contains(b, arg)
      [] m = "StartsWith" -> StringFilterBuilder_StartsWith(b, arg)
      [] m = "EndsWith" -> StringFilterBuilder_EndsWith(b, arg)
      [] m = "IsNull" -> StringFilterBuilder_IsNull(b)
      [] m = "IsNotNull" -> StringFilterBuilder_IsNotNull(b)

BoolMethod(b, m, arg) ==
    CASE m = "Eq" -> BoolFilterBuilder_Eq(b, arg)
      [] m = "Ne" -> BoolFilterBuilder_Ne(b, arg)
      [] m = "Gt" -> BoolFilterBuilder_Gt(b, arg)
      [] m = "Gte" -> BoolFilterBuilder_Gte(b, arg)
      [] m = "Lt" -> BoolFilterBuilder_Lt(b, arg)
      [] m = "Lte" -> BoolFilterBuilder_Lte(b, arg)
      [] m = "In" -> BoolFilterBuilder_In(b, arg)
      [] m = "Nin" -> BoolFilterBuilder_Nin(b, arg)
      [] m = "Contains" -> BoolFilterBuilder_Contains(b, arg)
      [] m = "StartsWith" -> BoolFilterBuilder_StartsWith(b, arg)
      [] m = "EndsWith" -> BoolFilterBuilder_EndsWith(b, arg)
      [] m = "IsNull" -> BoolFilterBuilder_IsNull(b)
      [] m = "IsNotNull" -> BoolFilterBuilder_IsNotNull(b)

TimeMethod(b, m, arg) ==
    CASE m = "Eq" -> TimeFilterBuilder_Eq(b, arg)
      [] m = "Ne" -> TimeFilterBuilder_Ne(b, arg)
      [] m = "Gt" -> TimeFilterBuilder_Gt(b, arg)
      [] m = "Gte" -> TimeFilterBuilder_Gte(b, arg)
      [] m = "Lt" -> TimeFilterBuilder_Lt(b, arg)
      [] m = "Lte" -> TimeFilterBuilder_Lte(b, arg)
      [] m = "In" -> TimeFilterBuilder_In(b, arg)
      [] m = "Nin" -> TimeFilterBuilder_Nin(b, arg)
      [] m = "Contains" -> TimeFilterBuilder_Contains(b, arg)
      [] m = "StartsWith" -> TimeFilterBuilder_StartsWith(b, arg)
      [] m = "EndsWith" -> TimeFilterBuilder_EndsWith(b, arg)
      [] m = "IsNull" -> TimeFilterBuilder_IsNull(b)
      [] m = "IsNotNull" -> TimeFilterBuilder_IsNotNull(b)

Logged(call, r) == [r EXCEPT !.calls = <<call>> \o r.calls]

FieldFilterBuilder(b, m, arg) ==
    Logged(MethodCall(b.predicates, m, arg),
           CASE b.Kind = "string" -> StringMethod(b, m, arg)
             [] b.Kind = "bool" -> BoolMethod(b, m, arg)
             [] b.Kind = "time" -> TimeMethod(b, m, arg))

\* ------------------------------------------------------------- registry

StringField(name, predicates) ==
    [Name |-> name, Kind |-> "string", predicates |-> predicates, nullable |-> FALSE]

NullableStringField(name, predicates) ==
    [Name |-> name, Kind |-> "string", predicates |-> predicates, nullable |-> TRUE]

BoolField(name, predicates) ==
    [Name |-> name, Kind |-> "bool", predicates |-> predicates, nullable |-> FALSE]

TimeField(name, predicates) ==
    [Name |-> name, Kind |-> "time", predicates |-> predicates, nullable |-> FALSE]

NullableTimeField(name, predicates) ==
    [Name |-> name, Kind |-> "time", predicates |-> predicates, nullable |-> TRUE]

\* field.Create(combinators): the factory closure of a FieldBuilder.
Create(field, combinators) ==
    CASE field.Kind = "string" ->
           newStringFilterWithCombinators(field.predicates, combinators, field.nullable)
      [] field.Kind = "bool" ->
           newBoolFilterWithCombinators(field.predicates, combinators)
      [] field.Kind = "time" ->
           newTimeFilterWithCombinators(field.predicates, combinators, field.nullable)

\* BuildFilterMap that keeps the builder already stored under a name.
RECURSIVE BuildFilterMap_FirstWins(_, _)
BuildFilterMap_FirstWins(combinators, fs) ==
    IF fs = <<>> THEN [n \in {} |-> Create(StringField("", ""), combinators)]
    ELSE LET n == Len(fs)
             before == BuildFilterMap_FirstWins(combinators, SubSeq(fs, 1, n - 1))
         IN [name \in DOMAIN before \cup {fs[n].Name} |->
               IF name \in DOMAIN before THEN before[name]
               ELSE Create(fs[n], combinators)]

RECURSIVE BuildFilterMap(_, _)
BuildFilterMap(combinators, fs) ==
    IF fs = <<>> THEN [n \in {} |-> Create(StringField("", ""), combinators)]
    ELSE LET n == Len(fs)
             before == BuildFilterMap(combinators, SubSeq(fs, 1, n - 1))
         IN [name \in DOMAIN before \cup {fs[n].Name} |->
               IF name = fs[n].Name THEN Create(fs[n], combinators)
               ELSE before[name]]

\* ------------------------------------------------------------- evaluator

OpEq == "eq"
OpNe == "ne"
OpGt == "gt"
OpGte == "gte"
OpLt == "lt"
OpLte == "lte"
OpIn == "in"
OpNin == "nin"
OpContains == "contains"
OpStartsWith == "startswith"
OpEndsWith == "endswith"
OpNull == "null"
OpNnull == "nnull"

Filter(field, operator, value) == [Field |-> field, Operator |-> operator, Value |-> value]

FilterGroup(filters, logic) == [Filters |-> filters, Logic |-> logic]

\* toString that formats a boolean instead of giving the empty string.
toString_Formatted(v) ==
    IF v.t = "nil" THEN <<>>
    ELSE IF v.t = "string" THEN v.s
    ELSE IF v.t = "bool" THEN (IF v.b THEN <<"t", "r", "u", "e">> ELSE <<"f", "a", "l", "s", "e">>)
    ELSE <<>>

\* if s, ok := v.(string); ok { return s }; return "" (nil returns "" first).
toString(v) ==
    IF v.t = "nil" THEN <<>>
    ELSE IF v.t = "string" THEN v.s
    ELSE <<>>

\* The wrapping applied to every value, a []any included.
AsValues_AlwaysWrap(v) == List(<<v>>)

\* f.Value.([]any), else []any{f.Value}.
AsValues(v) == IF v.t = "list" THEN v ELSE List(<<v>>)

\* buildPredicate whose case OpGte calls Gt, the method of the case above it.
buildPredicate_GteAsGt(builder, f) ==
    CASE f.Operator = OpEq -> FieldFilterBuilder(builder, "Eq", f.Value)
      [] f.Operator = OpNe -> FieldFilterBuilder(builder, "Ne", f.Value)
      [] f.Operator = OpGt -> FieldFilterBuilder(builder, "Gt", f.Value)
      [] f.Operator = OpGte -> FieldFilterBuilder(builder, "Gt", f.Value)
      [] f.Operator = OpLt -> FieldFilterBuilder(builder, "Lt", f.Value)
      [] f.Operator = OpLte -> FieldFilterBuilder(builder, "Lte", f.Value)
      [] f.Operator = OpIn -> FieldFilterBuilder(builder, "In", AsValues(f.Value))
      [] f.Operator = OpNin -> FieldFilterBuilder(builder, "Nin", AsValues(f.Value))
      [] f.Operator = OpContains ->
           FieldFilterBuilder(builder, "Contains", Str(toString(f.Value)))
      [] f.Operator = OpStartsWith ->
           FieldFilterBuilder(builder, "StartsWith", Str(toString(f.Value)))
      [] f.Operator = OpEndsWith ->
           FieldFilterBuilder(builder, "EndsWith", Str(toString(f.Value)))
      [] f.Operator = OpNull -> FieldFilterBuilder(builder, "IsNull", Nil)
      [] f.Operator = OpNnull -> FieldFilterBuilder(builder, "IsNotNull", Nil)
      [] OTHER -> FieldFilterBuilder(builder, "Eq", f.Value)

\* buildPredicate that rejects an operator it does not know.
buildPredicate_DefaultPanics(builder, f) ==
    CASE f.Operator = OpEq -> FieldFilterBuilder(builder, "Eq", f.Value)
      [] f.Operator = OpNe -> FieldFilterBuilder(builder, "Ne", f.Value)
      [] f.Operator = OpGt -> FieldFilterBuilder(builder, "Gt", f.Value)
      [] f.Operator = OpGte -> FieldFilterBuilder(builder, "Gte", f.Value)
      [] f.Operator = OpLt -> FieldFilterBuilder(builder, "Lt", f.Value)
      [] f.Operator = OpLte -> FieldFilterBuilder(builder, "Lte", f.Value)
      [] f.Operator = OpIn -> FieldFilterBuilder(builder, "In", AsValues(f.Value))
      [] f.Operator = OpNin -> FieldFilterBuilder(builder, "Nin", AsValues(f.Value))
      [] f.Operator = OpContains ->
           FieldFilterBuilder(builder, "Contains", Str(toString(f.Value)))
      [] f.Operator = OpStartsWith ->
           FieldFilterBuilder(builder, "StartsWith", Str(toString(f.Value)))
      [] f.Operator = OpEndsWith ->
           FieldFilterBuilder(builder, "EndsWith", Str(toString(f.Value)))
      [] f.Operator = OpNull -> FieldFilterBuilder(builder, "IsNull", Nil)
      [] f.Operator = OpNnull -> FieldFilterBuilder(builder, "IsNotNull", Nil)
      [] OTHER -> Panic(<<>>)

buildPredicate(builder, f) ==
    CASE f.Operator = OpEq -> FieldFilterBuilder(builder, "Eq", f.Value)
      [] f.Operator = OpNe -> FieldFilterBuilder(builder, "Ne", f.Value)
      [] f.Operator = OpGt -> FieldFilterBuilder(builder, "Gt", f.Value)
      [] f.Operator = OpGte -> FieldFilterBuilder(builder, "Gte", f.Value)
      [] f.Operator = OpLt -> FieldFilterBuilder(builder, "Lt", f.Value)
      [] f.Operator = OpLte -> FieldFilterBuilder(builder, "Lte", f.Value)
      [] f.Operator = OpIn -> FieldFilterBuilder(builder, "In", AsValues(f.Value))
      [] f.Operator = OpNin -> FieldFilterBuilder(builder, "Nin", AsValues(f.Value))
      [] f.Operator = OpContains ->
           FieldFilterBuilder(builder, "Contains", Str(toString(f.Value)))
      [] f.Operator = OpStartsWith ->
           FieldFilterBuilder(builder, "StartsWith", Str(toString(f.Value)))
      [] f.Operator = OpEndsWith ->
           FieldFilterBuilder(builder, "EndsWith", Str(toString(f.Value)))
      [] f.Operator = OpNull -> FieldFilterBuilder(builder, "IsNull", Nil)
      [] f.Operator = OpNnull -> FieldFilterBuilder(builder, "IsNotNull", Nil)
      [] OTHER -> FieldFilterBuilder(builder, "Eq", f.Value)

\* Appended that puts the new predicate in front of the earlier ones.
Appended_Prepend(acc, r) ==
    [ps |-> IF r.ok THEN <<r.p>> \o acc.ps ELSE acc.ps,
     calls |-> acc.calls \o r.calls,
     ok |-> r.ok]

\* filterPredicates = append(filterPredicates, predicate), with the calls
\* buildPredicate made; a panic of buildPredicate (r.ok false) is kept.
Appended(acc, r) ==
    [ps |-> IF r.ok THEN Append(acc.ps, r.p) ELSE acc.ps,
     calls |-> acc.calls \o r.calls,
     ok |-> r.ok]

\* The loop over group.Filters: acc holds filterPredicates and the calls
\* made so far; a panic of buildPredicate ends the loop and the function.
\* FilterLoop without the `ok` test of the map lookup: the method of the
\* nil builder of an unknown field is called, which panics.
RECURSIVE FilterLoop_NoSkip(_, _, _)
FilterLoop_NoSkip(filters, fieldBuilders, acc) ==
    IF filters = <<>> \/ ~acc.ok THEN acc
    ELSE FilterLoop_NoSkip(Tail(filters), fieldBuilders,
                    IF Head(filters).Field \notin DOMAIN fieldBuilders
                    THEN Appended(acc, Panic(<<>>))
                    ELSE Appended(acc, buildPredicate(fieldBuilders[Head(filters).Field],
                                                      Head(filters))))

RECURSIVE FilterLoop(_, _, _)
FilterLoop(filters, fieldBuilders, acc) ==
    IF filters = <<>> \/ ~acc.ok THEN acc
    ELSE FilterLoop(Tail(filters), fieldBuilders,
                    IF Head(filters).Field \notin DOMAIN fieldBuilders
                    THEN acc
                    ELSE Appended(acc, buildPredicate(fieldBuilders[Head(filters).Field],
                                                      Head(filters))))

\* Combine with the logic tag compared without regard to letter case.
Combine_Fold(logic, predicates, ps) ==
    IF logic \in {"or", "OR", "Or", "oR"} THEN CallComb(predicates.Or, ps)
    ELSE CallComb(predicates.And, ps)

\* The combination of two or more predicates by group.Logic.
Combine(logic, predicates, ps) ==
    IF logic = "or" THEN CallComb(predicates.Or, ps)
    ELSE CallComb(predicates.And, ps)

\* return cfg.Where(query, combinedPredicate)
Applied(q, cs, c) ==
    [q |-> Where(q, c.p), calls |-> cs \o c.calls \o <<WhereCall(c.p)>>, ok |-> TRUE]

\* AfterLoop that wraps a single predicate in the combinator as well.
AfterLoop_AlwaysCombine(q, grp, predicates, loop) ==
    IF ~loop.ok THEN [q |-> q, calls |-> loop.calls, ok |-> FALSE]
    ELSE IF Len(loop.ps) = 0 THEN [q |-> q, calls |-> loop.calls, ok |-> TRUE]
    ELSE Applied(q, loop.calls, Combine(grp.Logic, predicates, loop.ps))

\* ApplyStructuredFilters after its loop.
AfterLoop(q, grp, predicates, loop) ==
    IF ~loop.ok THEN [q |-> q, calls |-> loop.calls, ok |-> FALSE]
    ELSE IF Len(loop.ps) = 0 THEN [q |-> q, calls |-> loop.calls, ok |-> TRUE]
    ELSE Applied(q, loop.calls,
                 IF Len(loop.ps) = 1 THEN Ret(loop.ps[1], <<>>)
                 ELSE Combine(grp.Logic, predicates, loop.ps))

\* ApplyStructuredFilters without its two emptiness tests: whatever the loop
\* built, none included, is combined and handed to Where.
ApplyStructuredFilters_NoEmptyChecks(q, grp, fieldBuilders, predicates) ==
    Applied(q, <<>>,
            Combine(grp.Logic, predicates,
                    FilterLoop(grp.Filters, fieldBuilders,
                               [ps |-> <<>>, calls |-> <<>>, ok |-> TRUE]).ps))

\* Returns the query the caller holds afterwards (q), the calls made and
\* whether the function returned (ok) or panicked.
ApplyStructuredFilters(q, grp, fieldBuilders, predicates) ==
    IF Len(grp.Filters) = 0 THEN [q |-> q, calls |-> <<>>, ok |-> TRUE]
    ELSE AfterLoop(q, grp, predicates,
                   FilterLoop(grp.Filters, fieldBuilders,
                              [ps |-> <<>>, calls |-> <<>>, ok |-> TRUE]))

\* ----------------------------------------------------------------- inputs

MaxFilters == 3

S_a == <<"a">>

S_jo == <<"j", "o">>

S_date == <<"2", "0", "2", "4", "-", "0", "1", "-", "1", "5">>

S_stamp == S_date \o <<"T", "1", "0", ":", "3", "0", ":", "0", "0", "Z">>

S_feb30 == <<"2", "0", "2", "4", "-", "0", "2", "-", "3", "0">>

S_offset == S_date \o <<"T", "1", "0", ":", "3", "0", ":", "0", "0", "+", "0", "2", ":", "0", "0">>

S_nozone == S_date \o <<"T", "1", "0", ":", "3", "0", ":", "0", "0">>

Strings == {<<>>, S_a, S_jo, S_date, S_stamp, S_feb30, S_offset, S_nozone}

T1 == <<2023, 6, 1, 12, 0, 0, 0>>

Scalars ==
    {Nil, Bool(TRUE), Bool(FALSE), IntV(18), Time(T1)} \cup {Str(s) : s \in Strings}

Lists ==
    {List(<<>>), List(<<Str(S_a)>>), List(<<Str(S_a), Str(S_jo)>>),
     List(<<Str(S_a), IntV(18)>>), List(<<Bool(TRUE)>>),
     List(<<Bool(FALSE), Bool(TRUE)>>), List(<<Bool(TRUE), Str(S_a)>>),
     List(<<Str(S_date), Str(S_a)>>), List(<<Nil>>),
     List(<<Bool(FALSE)>>), List(<<Bool(TRUE), Bool(FALSE)>>),
     List(<<Bool(TRUE), Bool(TRUE)>>), List(<<Bool(FALSE), Bool(FALSE)>>),
     List(<<Bool(FALSE), Bool(TRUE), Bool(FALSE)>>),
     List(<<IntV(18), Time(T1), Str(S_stamp)>>),
     List(<<Str(S_nozone), Str(S_offset), Str(S_feb30), Str(S_date)>>),
     StringSlice(<<Str(S_a)>>)}

Values == Scalars \cup Lists

KnownOperators ==
    {OpEq, OpNe, OpGt, OpGte, OpLt, OpLte, OpIn, OpNin,
     OpContains, OpStartsWith, OpEndsWith, OpNull, OpNnull}

Operators == KnownOperators \cup {"", "EQ", "like"}

FieldNames == {"email", "active", "created", "ghost"}

Logics == {"", "and", "or", "OR"}

AllFilters == {Filter(f, op, v) : f \in FieldNames, op \in Operators, v \in Values}

\* The filters of the multi-filter groups.
GroupFilters ==
    {Filter("email", OpEq, Str(S_a)),
     Filter("email", OpContains, Str(S_jo)),
     Filter("active", OpIn, List(<<Bool(FALSE), Bool(TRUE)>>)),
     Filter("created", OpGte, Str(S_date)),
     Filter("ghost", OpEq, Str(S_a)),
     Filter("ghost", OpIn, IntV(18)),
     Filter("email", OpEq, IntV(18)),
     Filter("email", OpNull, Nil)}

SeqsUpTo(S, n) == UNION {[1..k -> S] : k \in 0..n}

Companion == Filter("email", OpContains, Str(S_jo))

\* Every filter alone, before and after a companion filter.
ProbeSeqs ==
    UNION {{<<p>>, <<Companion, p>>, <<p, Companion>>} : p \in AllFilters}

Groups ==
    {FilterGroup(fs, l) : fs \in SeqsUpTo(GroupFilters, MaxFilters), l \in Logics}
    \cup {FilterGroup(fs, "or") : fs \in ProbeSeqs}

\* The field declarations of the two registries the filter groups are
\* evaluated against.
Declarations ==
    {<<StringField("email", "email"), BoolField("active", "active"),
       TimeField("created", "created")>>,
     <<NullableStringField("email", "email"), NullableTimeField("created", "created")>>}

MaxFields == 3

\* Field descriptors with names that repeat and names that differ in letter
\* case only; each has predicates of its own.
Descriptors ==
    {StringField("email", "email"), NullableStringField("email", "email2"),
     BoolField("Email", "Email"), TimeField("created", "created"),
     NullableTimeField("created", "created2")}

FieldLists == SeqsUpTo(Descriptors, MaxFields)

\* Groups that look names up in a registry built from FieldLists.
LookupGroups ==
    {FilterGroup(<<Filter(n, OpNnull, Nil)>>, "and") :
       n \in {"email", "Email", "EMAIL", "created"}}
    \cup {FilterGroup(<<Filter("email", OpNnull, Nil), Filter("Email", OpNnull, Nil)>>, "and")}

Queries == {<<>>, <<Atom("id", "Eq", IntV(7))>>}

\* ---------------------------------------------------------- state machine

Init ==
    /\ \/ fields \in Declarations /\ group \in Groups
       \/ fields \in FieldLists /\ group \in LookupGroups
    /\ registry = <<>>
    /\ query \in Queries
    /\ pc = "build"
    /\ result = <<>>
    /\ calls = <<>>
    /\ failed = FALSE
    /\ evals = <<>>
    /\ params = <<>>
    /\ ret = <<>>

\* The caller after the call: r.q is the query it holds.
Returned(r) ==
    /\ result' = r.q
    /\ calls' = r.calls
    /\ failed' = ~r.ok

\* registry = BuildFilterMap(combinators, fields...)
CallBuildFilterMap ==
    /\ pc = "build"
    /\ registry' = BuildFilterMap(Combinators, fields)
    /\ pc' = "ready"
    /\ UNCHANGED <<fields, group, query, result, calls, failed, evals, params, ret>>

\* One call of ApplyStructuredFilters(query, cfg, group, registry, predicates).
CallApplyStructuredFilters ==
    /\ pc = "ready"
    /\ Returned(ApplyStructuredFilters(query, group, registry, PredicateBuilder))
    /\ pc' = "done"
    /\ UNCHANGED <<fields, registry, group, query, evals, params, ret>>

Next == CallBuildFilterMap \/ CallApplyStructuredFilters

Spec == Init /\ [][Next]_vars

\* -------------------------------------------------- concurrent evaluations
\* Several goroutines each run ApplyStructuredFilters on a group and a query
\* of their own against the one registry.  evals[p] is goroutine p: its
\* arguments, where it stands in the function (at), the filters its loop has
\* still to visit (rest), its local filterPredicates with the calls made
\* (acc) and what it returned (out).  A step is one iteration of the loop.
\* A panic ends the evaluation it occurs in (its caller recovers it).

NumEvals == 2

Procs == 1..NumEvals

NewEval(g, q) ==
    [group |-> g, query |-> q, at |-> "start", rest |-> <<>>,
     acc |-> [ps |-> <<>>, calls |-> <<>>, ok |-> TRUE],
     out |-> [q |-> <<>>, calls |-> <<>>, ok |-> TRUE]]

ConcurrentGroups ==
    {FilterGroup(<<>>, "or"),
     FilterGroup(<<Filter("email", OpEq, Str(S_a)), Filter("created", OpGte, Str(S_date))>>,
                 "and"),
     FilterGroup(<<Filter("email", OpNull, Nil), Filter("ghost", OpEq, Str(S_a)),
                   Filter("active", OpIn, List(<<Bool(FALSE), Bool(TRUE)>>))>>, "or"),
     FilterGroup(<<Filter("email", OpEq, IntV(18)), Filter("email", OpEq, Str(S_a))>>, "")}

InitConcurrent ==
    /\ fields \in Declarations
    /\ registry = <<>>
    /\ pc = "build"
    /\ evals \in [Procs -> {NewEval(g, q) : g \in ConcurrentGroups, q \in Queries}]
    /\ group = FilterGroup(<<>>, "")
    /\ query = <<>>
    /\ result = <<>>
    /\ calls = <<>>
    /\ failed = FALSE
    /\ params = <<>>
    /\ ret = <<>>

Shared == <<fields, registry, group, query, pc, result, calls, failed, params, ret>>

\* if len(group.Filters) == 0 { return query }
EvalStart(p) ==
    /\ pc = "ready"
    /\ evals[p].at = "start"
    /\ evals' = [evals EXCEPT ![p] =
                   IF Len(evals[p].group.Filters) = 0
                   THEN [@ EXCEPT !.at = "done",
                                  !.out = [q |-> evals[p].query, calls |-> <<>>, ok |-> TRUE]]
                   ELSE [@ EXCEPT !.at = "loop", !.rest = evals[p].group.Filters]]
    /\ UNCHANGED Shared

\* One iteration of the loop over group.Filters that deletes the builder it
\* looked up from the registry.
EvalStep_Consuming(p) ==
    /\ pc = "ready"
    /\ evals[p].at = "loop" /\ evals[p].rest # <<>> /\ evals[p].acc.ok
    /\ evals' = [evals EXCEPT ![p].acc = FilterLoop(<<Head(evals[p].rest)>>, registry, @),
                              ![p].rest = Tail(@)]
    /\ registry' = [n \in DOMAIN registry \ {Head(evals[p].rest).Field} |-> registry[n]]
    /\ UNCHANGED <<fields, group, query, pc, result, calls, failed, params, ret>>

\* One iteration of the loop over group.Filters: the map lookup, the call
\* of buildPredicate and the append to the local filterPredicates.
EvalStep(p) ==
    /\ pc = "ready"
    /\ evals[p].at = "loop" /\ evals[p].rest # <<>> /\ evals[p].acc.ok
    /\ evals' = [evals EXCEPT ![p].acc = FilterLoop(<<Head(evals[p].rest)>>, registry, @),
                              ![p].rest = Tail(@)]
    /\ UNCHANGED Shared

\* The function after its loop, or unwinding from a panic in it.
EvalFinish(p) ==
    /\ pc = "ready"
    /\ evals[p].at = "loop" /\ (evals[p].rest = <<>> \/ ~evals[p].acc.ok)
    /\ evals' = [evals EXCEPT ![p].at = "done",
                              ![p].out = AfterLoop(evals[p].query, evals[p].group,
                                                   PredicateBuilder, evals[p].acc)]
    /\ UNCHANGED Shared

NextConcurrent ==
    \/ CallBuildFilterMap
    \/ \E p \in Procs : EvalStart(p) \/ EvalStep(p) \/ EvalFinish(p)

SpecConcurrent == InitConcurrent /\ [][NextConcurrent]_vars

\* ------------------------------------------------------------ ApplySearch
\* unicode.IsSpace on the characters a search string is made of here.
IsSpace(c) == c \in {" ", "\t", "\n", "\r"}

\* strings.Fields(s): cur is the field being read, out the fields read.
RECURSIVE FieldsScan(_, _, _, _)
FieldsScan(s, i, cur, out) ==
    IF i > Len(s) THEN (IF cur = <<>> THEN out ELSE Append(out, cur))
    ELSE IF IsSpace(s[i])
         THEN FieldsScan(s, i + 1, <<>>, IF cur = <<>> THEN out ELSE Append(out, cur))
         ELSE FieldsScan(s, i + 1, Append(cur, s[i]), out)

Fields(s) == FieldsScan(s, 1, <<>>, <<>>)

\* The orders in which one `range` over the map with keys `keys` can visit
\* them: Go leaves the iteration order of a map unspecified.
IterationOrders(keys) ==
    {o \in [1..Cardinality(keys) -> keys] : \A i, j \in DOMAIN o : o[i] = o[j] => i = j}

\* fieldPredicates after the inner loop visited the map in `order`;
\* containsFoldFunc(token) of field f is the atom ContainsFold of f.
FieldPredicates(token, order) ==
    [i \in 1..Len(order) |-> Atom(order[i], "ContainsFold", Str(token))]

\* builder.Or(fieldPredicates...) preceded by the calls that made its arguments.
OrOf(builder, ps) == [p |-> Comb(builder.Or, ps), calls |-> Append(ps, Comb(builder.Or, ps)), ok |-> TRUE]

\* The loop over tokens; orders[i] is the map order met for token i.
RECURSIVE TokenLoop(_, _, _, _)
TokenLoop(tokens, orders, builder, acc) ==
    IF tokens = <<>> THEN acc
    ELSE TokenLoop(Tail(tokens), Tail(orders), builder,
                   Appended(acc, OrOf(builder, FieldPredicates(Head(tokens), Head(orders)))))

\* ApplySearch that wraps a single token predicate in And as well.
AfterTokens_AlwaysAnd(q, builder, loop) ==
    Applied(q, loop.calls, CallComb(builder.And, loop.ps))

\* ApplySearch after its loop: the combination and cfg.Where.
AfterTokens(q, builder, loop) ==
    Applied(q, loop.calls,
            IF Len(loop.ps) = 1 THEN Ret(loop.ps[1], <<>>)
            ELSE CallComb(builder.And, loop.ps))

ApplySearch(q, searchFields, builder, search, orders) ==
    IF search = <<>> THEN [q |-> q, calls |-> <<>>, ok |-> TRUE]
    ELSE IF Len(Fields(search)) = 0 THEN [q |-> q, calls |-> <<>>, ok |-> TRUE]
    ELSE AfterTokens(q, builder,
                     TokenLoop(Fields(search), orders, builder,
                               [ps |-> <<>>, calls |-> <<>>, ok |-> TRUE]))

MaxSearchLen == 5

SearchChars == {"a", "b", " ", "\t"}

SearchStrings == SeqsUpTo(SearchChars, MaxSearchLen)

SearchFieldSets == {{}, {"email"}, {"email", "first_name", "last_name"}}

InitSearch ==
    /\ query \in Queries
    /\ pc = "ready"
    /\ params = <<>>
    /\ fields = <<>>
    /\ registry = <<>>
    /\ group = FilterGroup(<<>>, "")
    /\ result = <<>>
    /\ calls = <<>>
    /\ failed = FALSE
    /\ evals = <<>>
    /\ ret = <<>>

\* One call of ApplySearch(query, cfg, fields, builder, search).
CallApplySearch ==
    /\ pc = "ready"
    /\ \E search \in SearchStrings, searchFields \in SearchFieldSets :
         /\ params' = [search |-> search, fields |-> searchFields]
         /\ \E orders \in [1..Len(Fields(search)) -> IterationOrders(searchFields)] :
              Returned(ApplySearch(query, searchFields, PredicateBuilder, search, orders))
    /\ pc' = "done"
    /\ UNCHANGED <<fields, registry, group, query, evals, ret>>

NextSearch == CallApplySearch

SpecSearch == InitSearch /\ [][NextSearch]_vars

\* ============================================================== pagination

\* Go's int, narrowed to IntBits bits: arithmetic wraps around in two's
\* complement, as it does at 64 bits.
IntBits == 4

MinInt == -(2 ^ (IntBits - 1))

MaxInt == 2 ^ (IntBits - 1) - 1

Ints == MinInt..MaxInt

Wrap(n) == ((n - MinInt) % (2 ^ IntBits)) + MinInt

Abs(n) == IF n < 0 THEN -n ELSE n

\* Go's a / b: the quotient truncated toward zero.
Quo(a, b) ==
    IF (a < 0) = (b < 0) THEN Wrap(Abs(a) \div Abs(b)) ELSE -(Abs(a) \div Abs(b))

\* Go's a % b: the remainder, with the sign of a.
Rem(a, b) == a - b * Quo(a, b)

\* cfg.Offset(query, n) and cfg.Limit(query, n): the query with the clause.
Clause(op, n) == Term("clause", "", op, IntV(n), <<>>)

Config_Offset(r, n) ==
    [q |-> Append(r.q, Clause("Offset", n)),
     calls |-> Append(r.calls, Clause("Offset", n)), ok |-> r.ok]

Config_Limit(r, n) ==
    [q |-> Append(r.q, Clause("Limit", n)),
     calls |-> Append(r.calls, Clause("Limit", n)), ok |-> r.ok]

AfterOffset(r, offset) == IF offset > 0 THEN Config_Offset(r, offset) ELSE r

AfterLimit(r, limit) == IF limit > 0 THEN Config_Limit(r, limit) ELSE r

pagination_Apply_NonNegative(q, limit, offset) ==
    LET r == [q |-> q, calls |-> <<>>, ok |-> TRUE]
        o == IF offset >= 0 THEN Config_Offset(r, offset) ELSE r
    IN  IF limit >= 0 THEN Config_Limit(o, limit) ELSE o

\* pagination.Apply(query, cfg, limit, offset)
pagination_Apply(q, limit, offset) ==
    AfterLimit(AfterOffset([q |-> q, calls |-> <<>>, ok |-> TRUE], offset), limit)

\* Page[T]{Data, Total, Limit, Offset}; no method reads Data.
NewPage(total, limit, offset) == [Total |-> total, Limit |-> limit, Offset |-> offset]

Page_HasNextPage(p) == Wrap(p.Offset + p.Limit) < p.Total

Page_HasPrevPage(p) == p.Offset > 0

Page_PageNumber(p) ==
    IF p.Limit <= 0 THEN 1 ELSE Wrap(Quo(p.Offset, p.Limit) + 1)

Page_TotalPages_Floor(p) ==
    IF p.Limit <= 0 THEN 1 ELSE Quo(p.Total, p.Limit)

Page_TotalPages(p) ==
    IF p.Limit <= 0 THEN 1
    ELSE IF Rem(p.Total, p.Limit) > 0 THEN Wrap(Quo(p.Total, p.Limit) + 1)
    ELSE Quo(p.Total, p.Limit)

Pages == {NewPage(t, l, o) : t \in Ints, l \in Ints, o \in Ints}

PageQuery == <<Atom("id", "Eq", IntV(7))>>

InitPagination ==
    /\ query = PageQuery
    /\ pc = "ready"
    /\ params = <<>>
    /\ fields = <<>>
    /\ registry = <<>>
    /\ group = FilterGroup(<<>>, "")
    /\ result = <<>>
    /\ calls = <<>>
    /\ failed = FALSE
    /\ evals = <<>>
    /\ ret = <<>>

\* One call of pagination.Apply(query, cfg, limit, offset).
CallApply ==
    /\ pc = "ready"
    /\ \E limit \in Ints, offset \in Ints :
         /\ params' = [limit |-> limit, offset |-> offset]
         /\ Returned(pagination_Apply(query, limit, offset))
    /\ pc' = "applied"
    /\ UNCHANGED <<fields, registry, group, query, evals, ret>>

Answered(page, method, b, n) ==
    /\ params' = [page |-> page]
    /\ ret' = [method |-> method, b |-> b, n |-> n]
    /\ pc' = "answered"
    /\ UNCHANGED <<fields, registry, group, query, result, calls, failed, evals>>

CallHasNextPage ==
    /\ pc = "ready"
    /\ \E page \in Pages : Answered(page, "HasNextPage", Page_HasNextPage(page), 0)

CallHasPrevPage ==
    /\ pc = "ready"
    /\ \E page \in Pages : Answered(page, "HasPrevPage", Page_HasPrevPage(page), 0)

CallPageNumber ==
    /\ pc = "ready"
    /\ \E page \in Pages : Answered(page, "PageNumber", FALSE, Page_PageNumber(page))

CallTotalPages ==
    /\ pc = "ready"
    /\ \E page \in Pages : Answered(page, "TotalPages", FALSE, Page_TotalPages(page))

NextPagination ==
    \/ CallApply
    \/ CallHasNextPage
    \/ CallHasPrevPage
    \/ CallPageNumber
    \/ CallTotalPages

SpecPagination == InitPagination /\ [][NextPagination]_vars

\* ==================================================================== sort

\* OrderBuilder.Asc(dbField) and OrderBuilder.Desc(dbField): the order option.
OrderOpt(op, dbField) == Term("order", dbField, op, Nil, <<>>)

Criteria(field, order) == [Field |-> field, Order |-> order]

\* if s.Order == Desc { builder.Desc(dbField) } else { builder.Asc(dbField) }
Direction_Lenient(order) == IF order \in {"desc", "DESC"} THEN "Desc" ELSE "Asc"

Direction(order) == IF order = "desc" THEN "Desc" ELSE "Asc"

RECURSIVE SortLoop(_, _, _)
SortLoop(sorts, sortFields, acc) ==
    IF sorts = <<>> THEN acc
    ELSE IF Head(sorts).Field \notin DOMAIN sortFields
         THEN SortLoop(Tail(sorts), sortFields, acc)
    ELSE SortLoop(Tail(sorts), sortFields,
                  [opts |-> Append(acc.opts,
                                   OrderOpt(Direction(Head(sorts).Order),
                                            sortFields[Head(sorts).Field])),
                   calls |-> Append(acc.calls,
                                    MethodCall(sortFields[Head(sorts).Field],
                                               Direction(Head(sorts).Order), Nil))])

\* cfg.Order(query, orderOpts...)
OrderCall(opts) == Term("orderby", "", "Order", Nil, opts)

AfterSorts(q, loop) ==
    IF Len(loop.opts) = 0 THEN [q |-> q, calls |-> loop.calls, ok |-> TRUE]
    ELSE [q |-> Append(q, OrderCall(loop.opts)),
          calls |-> Append(loop.calls, OrderCall(loop.opts)), ok |-> TRUE]

\* sort.ApplyMultiple(query, cfg, fields, builder, sorts)
ApplyMultiple(q, sortFields, sorts) ==
    IF Len(sorts) = 0 THEN [q |-> q, calls |-> <<>>, ok |-> TRUE]
    ELSE AfterSorts(q, SortLoop(sorts, sortFields, [opts |-> <<>>, calls |-> <<>>]))

MaxSorts == 3

SortFieldNames == {"email", "name", "ghost"}

SortOrders == {"asc", "desc", "DESC", ""}

SortCriteria == {Criteria(f, o) : f \in SortFieldNames, o \in SortOrders}

SortLists == SeqsUpTo(SortCriteria, MaxSorts)

SortFields == {<<>>, [f \in {"email", "name"} |-> <<"users.">> \o <<f>>]}

InitSort ==
    /\ query \in Queries
    /\ pc = "ready"
    /\ params = <<>>
    /\ fields = <<>>
    /\ registry = <<>>
    /\ group = FilterGroup(<<>>, "")
    /\ result = <<>>
    /\ calls = <<>>
    /\ failed = FALSE
    /\ evals = <<>>
    /\ ret = <<>>

\* One call of sort.ApplyMultiple(query, cfg, fields, builder, sorts).
CallApplyMultiple ==
    /\ pc = "ready"
    /\ \E sortFields \in SortFields, sorts \in SortLists :
         /\ params' = [fields |-> sortFields, sorts |-> sorts]
         /\ Returned(ApplyMultiple(query, sortFields, sorts))
    /\ pc' = "sorted"
    /\ UNCHANGED <<fields, registry, group, query, evals, ret>>

NextSort == CallApplyMultiple

SpecSort == InitSort /\ [][NextSort]_vars

\* ================================================================= claims

Done == pc = "done"

\* What the call left behind, in the shape ApplyStructuredFilters returns.
Outcome == [q |-> result, calls |-> calls, ok |-> ~failed]

IsKnown(f) == f.Field \in DOMAIN registry

KnownFilters == SelectSeq(group.Filters, IsKnown)

Single == Len(group.Filters) = 1

TheFilter == group.Filters[1]

TheBuilder == registry[TheFilter.Field]

WhereCalls == SelectSeq(calls, LAMBDA c : c.k = "where")

\* ----------------------------------------------------------------- C1
\* C1: a filter on a field absent from the registry is dropped silently: the
\* call leaves the same query, makes the same calls and fails or returns
\* exactly as the call on the group without its unknown-field filters does,
\* whatever operator and value those filters carry; a group with no
\* known-field filter returns the query unchanged without calling Where.
C1_UnknownFieldsDropped ==
    Done =>
      /\ Outcome = ApplyStructuredFilters(query, FilterGroup(KnownFilters, group.Logic),
                                          registry, PredicateBuilder)
      /\ (KnownFilters = <<>> => ~failed /\ result = query /\ WhereCalls = <<>>)

\* An unknown-field filter whose value no builder would take stands between
\* two known-field filters, and the call has applied the other two.
C1_Witness ==
    /\ Done /\ ~failed
    /\ Len(group.Filters) = 3
    /\ group.Filters[2] = Filter("ghost", OpIn, IntV(18))
    /\ IsKnown(group.Filters[1]) /\ IsKnown(group.Filters[3])
    /\ Len(result) = Len(query) + 1

\* ----------------------------------------------------------------- C2
Sentinel(b) == IF b.Kind = "string" THEN Str(<<>>) ELSE Time(ZeroTime)

NonNullable(b) == b.Kind \in {"string", "time"} /\ ~b.nullable

\* The calls of a null check synthesised with combinator `comb`.
SynthesisedCalls(b, method, comb) ==
    LET eq == Atom(b.predicates, "Eq", Sentinel(b))
        ne == Atom(b.predicates, "Ne", Sentinel(b))
    IN <<MethodCall(b.predicates, method, Nil), eq, ne, Comb(comb, <<eq, ne>>),
         WhereCall(Comb(comb, <<eq, ne>>))>>

\* C2: for a non-nullable string or time builder made by BuildFilterMap,
\* IsNull() is the injected And of exactly Eq(sentinel) and Ne(sentinel) and
\* IsNotNull() the injected Or of the same two atoms, the sentinel being ""
\* or the zero time; these two atoms are the only atoms invoked.
C2_NullChecksSynthesised ==
    (Done /\ Single /\ IsKnown(TheFilter) /\ NonNullable(TheBuilder)) =>
      /\ TheFilter.Operator = OpNull =>
           /\ ~failed
           /\ calls = SynthesisedCalls(TheBuilder, "IsNull", Combinators.And)
           /\ result = Append(query, calls[4])
      /\ TheFilter.Operator = OpNnull =>
           /\ ~failed
           /\ calls = SynthesisedCalls(TheBuilder, "IsNotNull", Combinators.Or)
           /\ result = Append(query, calls[4])

\* IsNotNull() of the non-nullable string field has been evaluated.
C2_Witness ==
    /\ Done /\ Single /\ TheFilter.Field = "email" /\ TheFilter.Operator = OpNnull
    /\ IsKnown(TheFilter) /\ NonNullable(TheBuilder)
    /\ result = Append(query, Comb("Combinators.Or",
                                   <<Atom("email", "Eq", Str(<<>>)),
                                     Atom("email", "Ne", Str(<<>>))>>))

\* ----------------------------------------------------------------- C3
\* The standard interpretation: Eq(s) holds of v iff v = s, Ne(s) iff v # s,
\* And is conjunction, Or is disjunction.
RECURSIVE Holds(_, _)
Holds(p, v) ==
    CASE p.k = "atom" /\ p.op = "Eq" -> v = p.arg
      [] p.k = "atom" /\ p.op = "Ne" -> v # p.arg
      [] p.k = "comb" /\ p.op \in {Combinators.And, PredicateBuilder.And} ->
           \A i \in 1..Len(p.args) : Holds(p.args[i], v)
      [] p.k = "comb" /\ p.op \in {Combinators.Or, PredicateBuilder.Or} ->
           \E i \in 1..Len(p.args) : Holds(p.args[i], v)

\* The values a field of the builder's type can hold.
FieldValues(b) ==
    IF b.Kind = "string" THEN {Str(s) : s \in Strings}
    ELSE {Time(ZeroTime), Time(T1), Time(parseTimeValue(Str(S_date)).t)}

\* C3: under the standard interpretation the predicate IsNull() of a
\* non-nullable string or time builder holds of no field value and the
\* predicate of IsNotNull() holds of every field value.
C3_ContradictionAndTautology ==
    (Done /\ Single /\ IsKnown(TheFilter) /\ NonNullable(TheBuilder)
          /\ TheFilter.Operator \in {OpNull, OpNnull}) =>
      /\ ~failed /\ Len(result) = Len(query) + 1
      /\ \A v \in FieldValues(TheBuilder) :
           Holds(result[Len(result)], v) <=> (TheFilter.Operator = OpNnull)

\* IsNull() of the non-nullable time field has been evaluated, and its
\* predicate is false of the zero time itself.
C3_Witness ==
    /\ Done /\ Single /\ TheFilter.Field = "created" /\ TheFilter.Operator = OpNull
    /\ IsKnown(TheFilter) /\ NonNullable(TheBuilder)
    /\ ~failed /\ Len(result) = Len(query) + 1
    /\ ~Holds(result[Len(result)], Time(ZeroTime))

\* ----------------------------------------------------------------- C4
\* The calls of the And and Or of the PredicateBuilder.
CombineCalls ==
    SelectSeq(calls, LAMBDA c : c.k = "comb"
                                /\ c.op \in {PredicateBuilder.And, PredicateBuilder.Or})

\* C4: when one known-field filter remains, neither And nor Or of the
\* PredicateBuilder is invoked, and if its predicate is built Where is
\* invoked once, with that predicate itself, whatever the logic tag is.
C4_SinglePredicateUnwrapped ==
    (Done /\ Len(KnownFilters) = 1) =>
      /\ CombineCalls = <<>>
      /\ ~failed =>
           LET p == buildPredicate(registry[KnownFilters[1].Field], KnownFilters[1]).p
           IN /\ result = Append(query, p)
              /\ WhereCalls = <<WhereCall(p)>>

\* One known-field filter remains of a group of several filters whose
\* logic tag is "or", and Where has been given its predicate.
C4_Witness ==
    /\ Done /\ ~failed
    /\ Len(group.Filters) >= 2 /\ Len(KnownFilters) = 1
    /\ group.Logic = "or"
    /\ result = Append(query, Atom("email", "Contains", Str(S_jo)))

\* ----------------------------------------------------------------- C5
\* C5: two or more predicates are combined by one call of Or exactly when
\* the logic tag is the string "or", and by one call of And for every other
\* tag ("", "and", "OR"); every tag other than "or" gives the outcome of the
\* tag "and".
C5_LogicTag ==
    (Done /\ ~failed /\ Len(KnownFilters) >= 2) =>
      /\ Len(CombineCalls) = 1
      /\ CombineCalls[1].op =
           (IF group.Logic = "or" THEN PredicateBuilder.Or ELSE PredicateBuilder.And)
      /\ result = Append(query, CombineCalls[1])
      /\ group.Logic # "or" =>
           Outcome = ApplyStructuredFilters(query, FilterGroup(group.Filters, "and"),
                                            registry, PredicateBuilder)

\* Two predicates have been combined under the tag "OR", by And.
C5_Witness ==
    /\ Done /\ ~failed /\ Len(KnownFilters) = 2
    /\ group.Logic = "OR"
    /\ result[Len(result)].op = PredicateBuilder.And

\* ----------------------------------------------------------------- C6
\* C6: a group with no filters makes no call at all (no builder method, no
\* atom, no combinator, no Where) and returns the query as it was given,
\* whatever the registry and the logic tag are.
C6_EmptyGroup ==
    (Done /\ group.Filters = <<>>) =>
      /\ calls = <<>>
      /\ result = query
      /\ ~failed

\* The empty group has been evaluated against the three-field registry with
\* the tag "or" and a query that already carries a predicate.
C6_Witness ==
    /\ Done /\ group.Filters = <<>> /\ group.Logic = "or"
    /\ DOMAIN registry = {"email", "active", "created"}
    /\ query # <<>> /\ result = query

\* ----------------------------------------------------------------- C7
\* The dispatch table as the claim states it.
MethodOf(tag) ==
    CASE tag = "eq" -> "Eq" [] tag = "ne" -> "Ne"
      [] tag = "gt" -> "Gt" [] tag = "gte" -> "Gte"
      [] tag = "lt" -> "Lt" [] tag = "lte" -> "Lte"
      [] tag = "in" -> "In" [] tag = "nin" -> "Nin"
      [] tag = "contains" -> "Contains"
      [] tag = "startswith" -> "StartsWith"
      [] tag = "endswith" -> "EndsWith"
      [] tag = "null" -> "IsNull" [] tag = "nnull" -> "IsNotNull"

Tags ==
    {"eq", "ne", "gt", "gte", "lt", "lte", "in", "nin",
     "contains", "startswith", "endswith", "null", "nnull"}

MethodCalls == SelectSeq(calls, LAMBDA c : c.k = "method")

\* C7: for each of the 13 tags buildPredicate invokes exactly one builder
\* method, the one the table names, and the call ends as that method ends
\* (its predicate goes to Where, its panic is the call's panic); no other
\* tag invokes the same method.
C7_Dispatch ==
    (Done /\ Single /\ IsKnown(TheFilter) /\ TheFilter.Operator \in Tags) =>
      /\ Len(MethodCalls) = 1
      /\ calls[1] = MethodCalls[1]
      /\ MethodCalls[1].f = TheBuilder.predicates
      /\ MethodCalls[1].op = MethodOf(TheFilter.Operator)
      /\ LET r == FieldFilterBuilder(TheBuilder, MethodCalls[1].op, MethodCalls[1].arg)
         IN /\ failed = ~r.ok
            /\ r.ok => result = Append(query, r.p)
      /\ \A tag \in Tags \ {TheFilter.Operator} :
           buildPredicate(TheBuilder,
                          Filter(TheFilter.Field, tag, TheFilter.Value)).calls[1].op
             # MethodCalls[1].op

\* The tag gte has been dispatched to Gte of the time builder.
C7_Witness ==
    /\ Done /\ Single /\ ~failed
    /\ TheFilter = Filter("created", "gte", Str(S_date))
    /\ IsKnown(TheFilter)
    /\ result = Append(query, Atom("created", "Gte", Time(<<2024, 1, 15, 0, 0, 0, 0>>)))

\* ----------------------------------------------------------------- C8
UnknownTag(f) == IsKnown(f) /\ f.Operator \notin Tags

WithEq(f) == IF UnknownTag(f) THEN Filter(f.Field, "eq", f.Value) ELSE f

\* The value is of the native type of the builder's field.
Native(b, v) ==
    \/ b.Kind = "string" /\ v.t = "string"
    \/ b.Kind = "bool" /\ v.t = "bool"
    \/ b.Kind = "time"

\* C8: a known-field filter with a tag outside the 13 (the empty tag, "EQ",
\* "like") behaves as the same filter with the tag eq: same query, same
\* calls, same end; with a value of the field's type it yields a predicate.
C8_UnknownOperatorIsEq ==
    (Done /\ \E i \in 1..Len(group.Filters) : UnknownTag(group.Filters[i])) =>
      /\ Outcome =
           ApplyStructuredFilters(
             query,
             FilterGroup([i \in 1..Len(group.Filters) |-> WithEq(group.Filters[i])],
                         group.Logic),
             registry, PredicateBuilder)
      /\ (Single /\ Native(TheBuilder, TheFilter.Value)) =>
           ~failed /\ Len(result) = Len(query) + 1

\* The tag "EQ" on the string field has produced the predicate of eq.
C8_Witness ==
    /\ Done /\ Single /\ ~failed
    /\ TheFilter = Filter("email", "EQ", Str(S_a))
    /\ result = Append(query, Atom("email", "Eq", Str(S_a)))

\* ----------------------------------------------------------------- C9
PredicateOf(f) == buildPredicate(registry[f.Field], f).p

\* C9: the combinator receives exactly one predicate per known-field
\* filter, in the order of those filters in the group.
C9_DeclarationOrder ==
    (Done /\ ~failed /\ Len(KnownFilters) >= 2) =>
      /\ Len(CombineCalls) = 1
      /\ Len(CombineCalls[1].args) = Len(KnownFilters)
      /\ \A i \in 1..Len(KnownFilters) :
           CombineCalls[1].args[i] = PredicateOf(KnownFilters[i])

\* Two different known-field filters with an unknown-field filter between
\* them have been combined.
C9_Witness ==
    /\ Done /\ ~failed /\ Len(group.Filters) = 3
    /\ group.Filters[1] = Filter("email", OpEq, Str(S_a))
    /\ ~IsKnown(group.Filters[2])
    /\ group.Filters[3] = Filter("created", OpGte, Str(S_date))
    /\ CombineCalls[1].args =
         <<Atom("email", "Eq", Str(S_a)),
           Atom("created", "Gte", Time(<<2024, 1, 15, 0, 0, 0, 0>>))>>

\* ---------------------------------------------------------------- C10
CompareMethods == {"Eq", "Ne", "Gt", "Gte", "Lt", "Lte"}

ArrayMethods == {"In", "Nin"}

\* The builder whose method the recorded call c invoked.
BuilderOf(c) == registry[CHOOSE n \in DOMAIN registry : registry[n].predicates = c.f]

\* The recorded method call c hands a string or bool builder a value, or a
\* sequence element, that is not of the builder's type.
Mismatch(c) ==
    LET native == IF BuilderOf(c).Kind = "string" THEN "string" ELSE "bool" IN
    /\ c.k = "method"
    /\ BuilderOf(c).Kind \in {"string", "bool"}
    /\ \/ c.op \in CompareMethods /\ c.arg.t # native
       \/ c.op \in ArrayMethods /\ \E i \in 1..Len(c.arg.l) : c.arg.l[i].t # native

\* C10: a method call with a type mismatch is the last thing the call does:
\* it builds no predicate, calls no atom and no combinator, the call of
\* ApplyStructuredFilters panics, Where is not invoked and the query stays
\* as it was; a comparison tag with a value of another type always ends so.
C10_TypeMismatchFatal ==
    Done =>
      /\ \A i \in 1..Len(calls) :
           Mismatch(calls[i]) =>
             /\ failed
             /\ i = Len(calls)
             /\ WhereCalls = <<>>
             /\ result = query
      /\ (/\ Single /\ IsKnown(TheFilter)
          /\ TheBuilder.Kind \in {"string", "bool"}
          /\ TheFilter.Operator \in {"eq", "ne", "gt", "gte", "lt", "lte"}
          /\ TheFilter.Value.t # TheBuilder.Kind) => failed /\ result = query
      /\ failed => WhereCalls = <<>> /\ result = query

\* After the predicate of a first filter was built, Nin of the bool builder
\* met a string among booleans, and the query is as it was.
C10_Witness ==
    /\ Done /\ failed
    /\ group.Filters = <<Companion, Filter("active", OpNin, List(<<Bool(TRUE), Str(S_a)>>))>>
    /\ IsKnown(group.Filters[2])
    /\ Len(calls) = 3 /\ Mismatch(calls[3])
    /\ query # <<>> /\ result = query

\* ---------------------------------------------------------------- C11
CompareTags == {"eq", "ne", "gt", "gte", "lt", "lte"}

\* The timestamp a value stands for: itself for a native timestamp, the
\* instant written in a string of RFC3339 or YYYY-MM-DD form, the zero
\* timestamp for everything else.
Coerced(v) ==
    CASE v.t = "time" -> v.tm
      [] v = Str(S_date) -> <<2024, 1, 15, 0, 0, 0, 0>>
      [] v = Str(S_stamp) -> <<2024, 1, 15, 10, 30, 0, 0>>
      [] v = Str(S_offset) -> <<2024, 1, 15, 10, 30, 0, 120>>
      [] OTHER -> ZeroTime

OnTimeField == Done /\ Single /\ IsKnown(TheFilter) /\ TheBuilder.Kind = "time"

\* C11: Eq, Ne, Gt, Gte, Lt and Lte of the time builder return normally for
\* every value (nil, string, bool, int, timestamp, slice) and invoke the atom
\* of the same name exactly once, as their only call, with the coerced
\* timestamp: the value itself, the parsed string, or the zero timestamp.
C11_TimeCompareNeverFails ==
    (OnTimeField /\ TheFilter.Operator \in CompareTags) =>
      LET atom == Atom(TheBuilder.predicates, MethodOf(TheFilter.Operator),
                       Time(Coerced(TheFilter.Value)))
      IN /\ ~failed
         /\ calls = <<MethodCall(TheBuilder.predicates, MethodOf(TheFilter.Operator),
                                 TheFilter.Value),
                      atom, WhereCall(atom)>>
         /\ result = Append(query, atom)

\* Lt of the time builder was given a timestamp without a zone, which no
\* layout parses, and has invoked the atom Lt with the zero timestamp.
C11_Witness ==
    /\ OnTimeField /\ ~failed
    /\ TheFilter.Operator = "lt" /\ TheFilter.Value = Str(S_nozone)
    /\ result = Append(query, Atom("created", "Lt", Time(ZeroTime)))

\* ---------------------------------------------------------------- C12
\* The filter, if it is on a registered string or bool field, carries a
\* value of the field's type: for in and nin a []any whose elements all are
\* of that type, for every other tag a value of that type.
WellTyped(f) ==
    (IsKnown(f) /\ registry[f.Field].Kind \in {"string", "bool"}) =>
      IF f.Operator \in {"in", "nin"}
      THEN /\ f.Value.t = "list"
           /\ \A i \in 1..Len(f.Value.l) : f.Value.l[i].t = registry[f.Field].Kind
      ELSE f.Value.t = registry[f.Field].Kind

AllWellTyped == \A i \in 1..Len(group.Filters) : WellTyped(group.Filters[i])

\* C12: a group whose filters on registered string and bool fields all carry
\* values of the field's type never makes ApplyStructuredFilters fail,
\* whatever unknown field names, unrecognised tags, logic tag and time-field
\* values it contains; so every failure comes from a filter on a string or
\* bool field whose value is not of the field's type.
C12_OnlyTypeMismatchFails ==
    (Done /\ AllWellTyped) => ~failed

\* A time-field filter with an unrecognised tag and an int value follows a
\* string-field filter; the call has combined the time predicate, built on
\* the zero timestamp, with the other.
C12_Witness ==
    /\ Done /\ ~failed /\ AllWellTyped
    /\ group.Filters = <<Companion, Filter("created", "like", IntV(18))>>
    /\ result = Append(query, Comb(PredicateBuilder.Or,
                                   <<Atom("email", "Contains", Str(S_jo)),
                                     Atom("created", "Eq", Time(ZeroTime))>>))

\* ---------------------------------------------------------------- C13
\* The single filter's tag has called `method` of the bool builder with a
\* sequence of booleans.
OnBoolSeq(method) ==
    /\ Done /\ Single /\ IsKnown(TheFilter) /\ TheBuilder.Kind = "bool"
    /\ MethodCalls[1].op = method
    /\ AllBool(MethodCalls[1].arg.l)

\* The sequence the method was called with and the booleans that occur in it.
Input == MethodCalls[1].arg.l

Occurring == {Input[i].b : i \in 1..Len(Input)}

Tautology(f) ==
    Comb(Combinators.Or, <<Atom(f, "Eq", Bool(TRUE)), Atom(f, "Eq", Bool(FALSE))>>)

Contradiction(f) ==
    Comb(Combinators.And, <<Atom(f, "Eq", Bool(TRUE)), Atom(f, "Eq", Bool(FALSE))>>)

\* What the call handed to Where.
Returns == result[Len(result)]

\* C13: In of the bool builder returns a predicate fixed by the set of
\* booleans occurring in its input, whatever their order and number: the
\* contradiction And(Eq(true), Eq(false)) for none, the tautology
\* Or(Eq(true), Eq(false)) for both, Eq(true) for true alone, Eq(false) for
\* false alone; In([true,false]) and In([false,true]) are the same.
C13_BoolIn ==
    /\ OnBoolSeq("In") =>
         /\ ~failed /\ Len(result) = Len(query) + 1
         /\ Returns =
              (CASE Occurring = {} -> Contradiction(TheBuilder.predicates)
                 [] Occurring = {TRUE, FALSE} -> Tautology(TheBuilder.predicates)
                 [] Occurring = {TRUE} -> Atom(TheBuilder.predicates, "Eq", Bool(TRUE))
                 [] Occurring = {FALSE} -> Atom(TheBuilder.predicates, "Eq", Bool(FALSE)))
    /\ \A n \in DOMAIN registry :
         registry[n].Kind = "bool" =>
           BoolFilterBuilder_In(registry[n], List(<<Bool(TRUE), Bool(FALSE)>>))
             = BoolFilterBuilder_In(registry[n], List(<<Bool(FALSE), Bool(TRUE)>>))

\* In([false, true, false]) has returned the tautology.
C13_Witness ==
    /\ OnBoolSeq("In")
    /\ TheFilter.Value = List(<<Bool(FALSE), Bool(TRUE), Bool(FALSE)>>)
    /\ Len(result) = Len(query) + 1
    /\ Returns = Tautology("active")

\* ---------------------------------------------------------------- C14
\* C14: Nin of the bool builder returns the tautology Or(Eq(true), Eq(false))
\* for the empty sequence and the contradiction And(Eq(true), Eq(false)) for
\* every sequence in which both true and false occur, in any order and
\* number.
C14_BoolNinEmptyAndBoth ==
    (OnBoolSeq("Nin") /\ Occurring \in {{}, {TRUE, FALSE}}) =>
      /\ ~failed /\ Len(result) = Len(query) + 1
      /\ Occurring = {} => Returns = Tautology(TheBuilder.predicates)
      /\ Occurring = {TRUE, FALSE} => Returns = Contradiction(TheBuilder.predicates)

\* Nin([true, false]) has returned the contradiction.
C14_Witness ==
    /\ OnBoolSeq("Nin")
    /\ TheFilter.Value = List(<<Bool(TRUE), Bool(FALSE)>>)
    /\ Len(result) = Len(query) + 1
    /\ Returns = Contradiction("active")

\* ---------------------------------------------------------------- C15
\* C15, as the code has it: Nin of the bool builder classifies a non-empty
\* input by the booleans occurring in it, as In does, but answers with the
\* complement of In: the contradiction And(Eq(true), Eq(false)) when both
\* occur, Eq(false) when only true occurs, Eq(true) when only false occurs.
C15_BoolNinComplement ==
    (OnBoolSeq("Nin") /\ Occurring # {}) =>
      /\ ~failed /\ Len(result) = Len(query) + 1
      /\ Returns =
           (CASE Occurring = {TRUE, FALSE} -> Contradiction(TheBuilder.predicates)
              [] Occurring = {TRUE} -> Atom(TheBuilder.predicates, "Eq", Bool(FALSE))
              [] Occurring = {FALSE} -> Atom(TheBuilder.predicates, "Eq", Bool(TRUE)))

\* Nin([true, true]) has returned Eq(false).
C15_Witness ==
    /\ OnBoolSeq("Nin")
    /\ TheFilter.Value = List(<<Bool(TRUE), Bool(TRUE)>>)
    /\ Len(result) = Len(query) + 1
    /\ Returns = Atom("active", "Eq", Bool(FALSE))

\* C15, as the specification words it: Nin returns the tautology Or(Eq(true), Eq(false))
\* when both booleans occur, Eq(true) when only true occurs and Eq(false)
\* when only false occurs.
C15_AsStated ==
    (OnBoolSeq("Nin") /\ Occurring # {}) =>
      /\ ~failed /\ Len(result) = Len(query) + 1
      /\ Returns =
           (CASE Occurring = {TRUE, FALSE} -> Tautology(TheBuilder.predicates)
              [] Occurring = {TRUE} -> Atom(TheBuilder.predicates, "Eq", Bool(TRUE))
              [] Occurring = {FALSE} -> Atom(TheBuilder.predicates, "Eq", Bool(FALSE)))

\* ---------------------------------------------------------------- C16
Nullable(b) == b.Kind \in {"string", "time"} /\ b.nullable

\* The calls of a null check delegated to the nil-check atom `atom`.
DelegatedCalls(b, method, atom) ==
    <<MethodCall(b.predicates, method, Nil), Atom(b.predicates, atom, Nil),
      WhereCall(Atom(b.predicates, atom, Nil))>>

\* C16: for a nullable string or time builder IsNull() returns what the
\* caller's IsNil atom returns and IsNotNull() what the IsNotNil atom
\* returns; that atom is the only thing the method calls: no And, no Or, no
\* Eq, no Ne.
C16_NullableDelegates ==
    (Done /\ Single /\ IsKnown(TheFilter) /\ Nullable(TheBuilder)) =>
      /\ TheFilter.Operator = OpNull =>
           /\ ~failed
           /\ calls = DelegatedCalls(TheBuilder, "IsNull", "IsNil")
           /\ result = Append(query, Atom(TheBuilder.predicates, "IsNil", Nil))
      /\ TheFilter.Operator = OpNnull =>
           /\ ~failed
           /\ calls = DelegatedCalls(TheBuilder, "IsNotNull", "IsNotNil")
           /\ result = Append(query, Atom(TheBuilder.predicates, "IsNotNil", Nil))

\* IsNotNull() of the nullable string field has returned the IsNotNil atom.
C16_Witness ==
    /\ Done /\ Single /\ IsKnown(TheFilter) /\ Nullable(TheBuilder)
    /\ TheFilter.Field = "email" /\ TheFilter.Operator = OpNnull
    /\ result = Append(query, Atom("email", "IsNotNil", Nil))

\* ---------------------------------------------------------------- C17
StringTags == {"contains", "startswith", "endswith"}

\* C17: Contains, StartsWith and EndsWith of the bool builder return the
\* tautology Or(Eq(true), Eq(false)) and those of the time builder return
\* Gte(zero timestamp), for every argument and without failing; these are
\* the only atoms and the only combinator they invoke.
C17_StringOpsOnBoolAndTime ==
    (Done /\ Single /\ IsKnown(TheFilter) /\ TheFilter.Operator \in StringTags) =>
      /\ TheBuilder.Kind = "bool" =>
           /\ ~failed
           /\ result = Append(query, Tautology(TheBuilder.predicates))
           /\ SubSeq(calls, 2, Len(calls)) =
                <<Atom(TheBuilder.predicates, "Eq", Bool(TRUE)),
                  Atom(TheBuilder.predicates, "Eq", Bool(FALSE)),
                  Tautology(TheBuilder.predicates),
                  WhereCall(Tautology(TheBuilder.predicates))>>
      /\ TheBuilder.Kind = "time" =>
           /\ ~failed
           /\ result = Append(query, Atom(TheBuilder.predicates, "Gte", Time(ZeroTime)))
           /\ SubSeq(calls, 2, Len(calls)) =
                <<Atom(TheBuilder.predicates, "Gte", Time(ZeroTime)),
                  WhereCall(Atom(TheBuilder.predicates, "Gte", Time(ZeroTime)))>>

\* EndsWith of the time builder was given a string that parses as a date
\* and has returned Gte(zero timestamp).
C17_Witness ==
    /\ Done /\ Single /\ IsKnown(TheFilter)
    /\ TheFilter = Filter("created", "endswith", Str(S_date))
    /\ calls[1] = MethodCall("created", "EndsWith", Str(S_date))
    /\ result = Append(query, Atom("created", "Gte", Time(ZeroTime)))

\* ---------------------------------------------------------------- C18
\* C18: In and Nin of the time builder return normally for every input
\* sequence and invoke the atom of the same name once, as their only call,
\* with a sequence of the input's length in which position i holds the
\* coerced timestamp of input element i: its timestamp if it is one or
\* parses as one, the zero timestamp otherwise.
C18_TimeInNinElementwise ==
    (OnTimeField /\ TheFilter.Operator \in {"in", "nin"}) =>
      LET atom == Atom(TheBuilder.predicates, MethodOf(TheFilter.Operator),
                       List([i \in 1..Len(Input) |-> Time(Coerced(Input[i]))]))
      IN /\ ~failed
         /\ MethodCalls[1].op = MethodOf(TheFilter.Operator)
         /\ SubSeq(calls, 2, Len(calls)) = <<atom, WhereCall(atom)>>
         /\ Len(atom.arg.l) = Len(Input)
         /\ result = Append(query, atom)

\* Nin was given a stamp without zone, a stamp with an offset, an impossible
\* date and a date, and has invoked the atom Nin with four timestamps, the
\* first and third of them zero.
C18_Witness ==
    /\ OnTimeField /\ TheFilter.Operator = "nin"
    /\ TheFilter.Value = List(<<Str(S_nozone), Str(S_offset), Str(S_feb30), Str(S_date)>>)
    /\ result = Append(query,
                       Atom("created", "Nin",
                            List(<<Time(ZeroTime), Time(<<2024, 1, 15, 10, 30, 0, 120>>),
                                   Time(ZeroTime), Time(<<2024, 1, 15, 0, 0, 0, 0>>)>>)))

\* ---------------------------------------------------------------- C19
OrderTags == {"gt", "gte", "lt", "lte"}

\* C19: Gt, Gte, Lt and Lte of the bool builder applied to a boolean b
\* return Eq(b), the predicate the builder's Eq returns for b; the atom Eq is
\* their only call: no Ne, no And, no Or.
C19_BoolOrderIsEq ==
    (/\ Done /\ Single /\ IsKnown(TheFilter) /\ TheBuilder.Kind = "bool"
     /\ TheFilter.Operator \in OrderTags /\ IsBool(TheFilter.Value)) =>
      /\ ~failed
      /\ calls = <<MethodCall(TheBuilder.predicates, MethodOf(TheFilter.Operator),
                              TheFilter.Value),
                   Atom(TheBuilder.predicates, "Eq", TheFilter.Value),
                   WhereCall(Atom(TheBuilder.predicates, "Eq", TheFilter.Value))>>
      /\ result = Append(query, BoolFilterBuilder_Eq(TheBuilder, TheFilter.Value).p)

\* Lt(false) of the bool builder has returned Eq(false).
C19_Witness ==
    /\ Done /\ Single /\ IsKnown(TheFilter)
    /\ TheFilter = Filter("active", "lt", Bool(FALSE))
    /\ calls[1].op = "Lt"
    /\ result = Append(query, Atom("active", "Eq", Bool(FALSE)))

\* ---------------------------------------------------------------- C20
Built == pc \in {"ready", "done"}

Names == {fields[i].Name : i \in 1..Len(fields)}

\* The descriptor latest in argument order among those named n.
LastNamed(n) ==
    fields[CHOOSE i \in 1..Len(fields) :
             /\ fields[i].Name = n
             /\ \A j \in (i + 1)..Len(fields) : fields[j].Name # n]

\* C20: the map BuildFilterMap returns has exactly the names of the given
\* descriptors as keys, and under each name the builder that the factory of
\* the last descriptor of that name makes from the one Combinators value
\* (earlier descriptors of the name leave no trace); a lookup finds a builder
\* only under the very name given, letter case included: a filter on a name
\* that is no key is skipped, a filter on a key reaches that key's builder.
C20_BuildFilterMap ==
    Built =>
      /\ DOMAIN registry = Names
      /\ \A n \in Names :
           /\ registry[n] = Create(LastNamed(n), Combinators)
           /\ registry[n].combinators = Combinators
      /\ (Done /\ Single) =>
           IF TheFilter.Field \in Names
           THEN calls[1].k = "method" /\ calls[1].f = LastNamed(TheFilter.Field).predicates
           ELSE calls = <<>> /\ result = query /\ ~failed

\* Two descriptors named "email" and one named "Email" were given; the
\* map has the two keys, "email" leads to the later of its two descriptors,
\* and the filter on "email" has reached that builder.
C20_Witness ==
    /\ Done /\ Single
    /\ fields = <<StringField("email", "email"), BoolField("Email", "Email"),
                  NullableStringField("email", "email2")>>
    /\ DOMAIN registry = {"email", "Email"}
    /\ TheFilter.Field = "email"
    /\ result = Append(query, Atom("email2", "IsNotNil", Nil))

\* ---------------------------------------------------------------- C21
\* Every evaluation that has returned holds the outcome of the same call
\* made alone against the registry as it was built.
OutcomeAsAlone ==
    pc = "ready" =>
      \A p \in Procs :
        evals[p].at = "done" =>
          evals[p].out = ApplyStructuredFilters(evals[p].query, evals[p].group,
                                                BuildFilterMap(Combinators, fields),
                                                PredicateBuilder)

\* A step of an evaluation leaves the registry with its builders, every
\* filter group and every query argument as they were.
SharedUntouched ==
    pc = "ready" =>
      /\ registry' = registry
      /\ \A p \in Procs : /\ evals'[p].group = evals[p].group
                           /\ evals'[p].query = evals[p].query

\* C21: under every interleaving of the evaluations' steps no step changes
\* the registry, a builder in it or a filter group, and each evaluation
\* returns what it returns when it runs alone on the same inputs.
C21_NoInterference == []OutcomeAsAlone /\ [][SharedUntouched]_vars

\* Both evaluations have returned against the one registry: the first with
\* a predicate applied to its query, the second by a panic.
C21_Witness ==
    /\ pc = "ready"
    /\ \A p \in Procs : evals[p].at = "done"
    /\ evals[1].group # evals[2].group
    /\ evals[1].out.ok /\ Len(evals[1].out.q) = Len(evals[1].query) + 1
    /\ ~evals[2].out.ok

\* ---------------------------------------------------------------- C22
\* The maximal runs of non-whitespace characters of s, as <<first, last>>.
Runs(s) ==
    {r \in (1..Len(s)) \X (1..Len(s)) :
       /\ r[1] <= r[2]
       /\ \A k \in r[1]..r[2] : s[k] \notin {" ", "\t"}
       /\ r[1] = 1 \/ s[r[1] - 1] \in {" ", "\t"}
       /\ r[2] = Len(s) \/ s[r[2] + 1] \in {" ", "\t"}}

\* The tokens of s: its runs from left to right.
Tokens(s) ==
    LET runs == Runs(s)
    IN [n \in 1..Cardinality(runs) |->
          LET r == CHOOSE r \in runs : Cardinality({x \in runs : x[1] < r[1]}) = n - 1
          IN SubSeq(s, r[1], r[2])]

OrCalls == SelectSeq(calls, LAMBDA c : c.k = "comb" /\ c.op = PredicateBuilder.Or)

AndCalls == SelectSeq(calls, LAMBDA c : c.k = "comb" /\ c.op = PredicateBuilder.And)

\* The predicates of p as a set.
ArgSet(p) == {p.args[i] : i \in 1..Len(p.args)}

\* C22: for an empty or all-whitespace search string ApplySearch makes no
\* call and returns the query as given; otherwise it calls Or once per
\* whitespace-separated token, in token order, on one predicate of every
\* search field for that token, and calls Where once: with that Or if there
\* is one token (And is not called), with one And of the Ors, in token
\* order, if there are several.
C22_ApplySearch ==
    Done =>
      LET tokens == Tokens(params.search) IN
      IF tokens = <<>>
      THEN calls = <<>> /\ result = query /\ ~failed
      ELSE /\ ~failed
           /\ Len(OrCalls) = Len(tokens)
           /\ \A n \in 1..Len(OrCalls) :
                /\ Len(OrCalls[n].args) = Cardinality(params.fields)
                /\ ArgSet(OrCalls[n]) =
                     {Atom(f, "ContainsFold", Str(tokens[n])) : f \in params.fields}
           /\ Len(WhereCalls) = 1
           /\ calls[Len(calls)] = WhereCalls[1]
           /\ result = Append(query, WhereCalls[1].args[1])
           /\ IF Len(OrCalls) = 1
              THEN AndCalls = <<>> /\ WhereCalls[1].args[1] = OrCalls[1]
              ELSE AndCalls = <<Comb(PredicateBuilder.And, OrCalls)>>
                   /\ WhereCalls[1].args[1] = AndCalls[1]

\* The search " a\tb " over three fields has applied the And of two Ors of
\* three predicates each, the first for "a", the second for "b".
C22_Witness ==
    /\ Done
    /\ params.search = <<" ", "a", "\t", "b", " ">>
    /\ Cardinality(params.fields) = 3
    /\ Len(result) = Len(query) + 1
    /\ result[Len(result)].op = PredicateBuilder.And
    /\ Len(result[Len(result)].args) = 2
    /\ result[Len(result)].args[1].args[1].arg = Str(<<"a">>)
    /\ result[Len(result)].args[2].args[3].arg = Str(<<"b">>)

\* ---------------------------------------------------------------- C23
\* The order in which the test expects the fields of its map.
TestOrder == <<"email", "first_name", "last_name">>

\* C23: with the three search fields email, first_name and last_name every
\* call of ApplySearch lists the field predicates of every per-token Or in
\* the one order email, first_name, last_name, so that the predicate given
\* to Where is fixed by the search string and the map.
C23_FixedFieldOrder ==
    (Done /\ params.fields = {"email", "first_name", "last_name"}) =>
      \A n \in 1..Len(OrCalls) :
        OrCalls[n].args = FieldPredicates(Fields(params.search)[n], TestOrder)

\* ---------------------------------------------------------------- C24
Applied24 == pc = "applied"

\* The calls of cfg.Offset and cfg.Limit that one call of Apply made.
ClauseCalls(op) == SelectSeq(calls, LAMBDA c : c.k = "clause" /\ c.op = op)

\* C24: pagination.Apply calls cfg.Offset, with the offset, exactly when the
\* offset is above zero and cfg.Limit, with the limit, exactly when the limit
\* is above zero; each at most once, Offset before Limit, and nothing else; the
\* query returned is the one those calls produced, and with both at or below
\* zero it is the query that came in.
C24_Apply ==
    Applied24 =>
      /\ ~failed
      /\ ClauseCalls("Offset") =
           (IF params.offset > 0 THEN <<Clause("Offset", params.offset)>> ELSE <<>>)
      /\ ClauseCalls("Limit") =
           (IF params.limit > 0 THEN <<Clause("Limit", params.limit)>> ELSE <<>>)
      /\ calls = ClauseCalls("Offset") \o ClauseCalls("Limit")
      /\ result = query \o calls
      /\ (params.offset <= 0 /\ params.limit <= 0) => result = query

\* Apply made both calls, Offset first.
C24_Witness ==
    /\ Applied24
    /\ params.offset > 0
    /\ params.limit > 0
    /\ Len(calls) = 2
    /\ calls[1].op = "Offset"
    /\ calls[2].op = "Limit"

\* ---------------------------------------------------------------- C25
Answers(method) == pc = "answered" /\ ret.method = method

\* The least number of pages of `limit` rows that hold `total` rows.
Ceiling(total, limit) ==
    CHOOSE n \in 0..total : n * limit >= total /\ (n = 0 \/ (n - 1) * limit < total)

\* C25: TotalPages is 1 whenever Limit is at or below zero; with Limit above
\* zero and Total at or above zero it is Total / Limit rounded up.
C25_TotalPages ==
    Answers("TotalPages") =>
      /\ params.page.Limit <= 0 => ret.n = 1
      /\ (params.page.Limit > 0 /\ params.page.Total >= 0) =>
           ret.n = Ceiling(params.page.Total, params.page.Limit)

\* A total that the limit does not divide: the last page is a partial one.
C25_Witness ==
    /\ Answers("TotalPages")
    /\ params.page.Limit = 3
    /\ params.page.Total = 7
    /\ ret.n = 3

\* ---------------------------------------------------------------- C26
Sorted == pc = "sorted"

OrderCalls == SelectSeq(calls, LAMBDA c : c.k = "orderby")

\* The criteria whose field the whitelist knows, in the order given.
Known(sorts, sortFields) ==
    SelectSeq(sorts, LAMBDA s : s.Field \in DOMAIN sortFields)

\* The option of one known criterion: descending only for exactly "desc".
OptionOf(s, sortFields) ==
    OrderOpt(IF s.Order = "desc" THEN "Desc" ELSE "Asc", sortFields[s.Field])

\* C26: ApplyMultiple invokes cfg.Order at most once, with the options of the
\* criteria whose field is known, in their order, one option each, descending
\* if and only if the order is exactly "desc"; criteria of unknown fields are
\* skipped; with no criteria, or none of a known field, cfg.Order is not
\* invoked and the query comes back as it was.
C26_ApplyMultiple ==
    Sorted =>
      LET known == Known(params.sorts, params.fields)
      IN  /\ ~failed
          /\ Len(OrderCalls) <= 1
          /\ known = <<>> => (OrderCalls = <<>> /\ result = query)
          /\ known # <<>> =>
               /\ Len(OrderCalls) = 1
               /\ OrderCalls[1].args =
                    [i \in 1..Len(known) |-> OptionOf(known[i], params.fields)]
               /\ result = Append(query, OrderCalls[1])

\* Three criteria, the middle one of an unknown field, an order of "DESC"
\* among them: cfg.Order received two options, the second ascending.
C26_Witness ==
    /\ Sorted
    /\ Len(params.sorts) = 3
    /\ params.sorts[1] = Criteria("name", "desc")
    /\ params.sorts[2].Field = "ghost"
    /\ params.sorts[3] = Criteria("email", "DESC")
    /\ DOMAIN params.fields # {}
    /\ Len(OrderCalls) = 1
    /\ Len(OrderCalls[1].args) = 2
    /\ OrderCalls[1].args[1].op = "Desc"
    /\ OrderCalls[1].args[2].op = "Asc"

\* ---------------------------------------------------------------- C27
\* The predicate In, and Nin, of the single filter's builder returns for the
\* sequence the method was called with.
InOf(values) == BoolFilterBuilder_In(TheBuilder, List(values)).p

NinOf(values) == BoolFilterBuilder_Nin(TheBuilder, List(values)).p

\* C27: with Eq(b) read as "the field's value is b", And as conjunction and Or
\* as disjunction, the predicate In(S) of the bool builder holds of a boolean v
\* if and only if v occurs in S, and the predicate Nin(S) holds of v if and
\* only if v does not occur in S; so Nin(S) holds exactly where In(S) does not.
C27_BoolInNinMeaning ==
    /\ OnBoolSeq("In") =>
         /\ ~failed /\ Len(result) = Len(query) + 1
         /\ \A v \in BOOLEAN : Holds(Returns, Bool(v)) <=> v \in Occurring
    /\ OnBoolSeq("Nin") =>
         /\ ~failed /\ Len(result) = Len(query) + 1
         /\ \A v \in BOOLEAN : Holds(Returns, Bool(v)) <=> v \notin Occurring
    /\ (OnBoolSeq("In") \/ OnBoolSeq("Nin")) =>
         \A v \in BOOLEAN : Holds(NinOf(Input), Bool(v)) <=> ~Holds(InOf(Input), Bool(v))

\* In of the empty sequence has returned a predicate that holds of neither
\* boolean.
C27_Witness ==
    /\ OnBoolSeq("In")
    /\ Input = <<>>
    /\ Len(result) = Len(query) + 1
    /\ ~Holds(Returns, Bool(TRUE))
    /\ ~Holds(Returns, Bool(FALSE))

\* ---------------------------------------------------------------- C28
\* The single filter, of a known field, carries the tag `operator`.
OnOperator(operator) ==
    Done /\ Single /\ IsKnown(TheFilter) /\ TheFilter.Operator = operator

\* C28: for the tags in and nin buildPredicate calls In, respectively Nin, of
\* the builder once whatever the value is: with the value itself when it is
\* a []any, and with the one-element []any holding the value when it is
\* anything else (nil, a scalar, a typed slice); the filter is never skipped.
C28_InNinWrapsScalars ==
    /\ OnOperator(OpIn) => (Len(MethodCalls) = 1 /\ MethodCalls[1].op = "In")
    /\ OnOperator(OpNin) => (Len(MethodCalls) = 1 /\ MethodCalls[1].op = "Nin")
    /\ (OnOperator(OpIn) \/ OnOperator(OpNin)) =>
         /\ calls[1] = MethodCalls[1]
         /\ TheFilter.Value.t = "list" => MethodCalls[1].arg = TheFilter.Value
         /\ TheFilter.Value.t # "list" =>
              /\ MethodCalls[1].arg.t = "list"
              /\ MethodCalls[1].arg.l = <<TheFilter.Value>>

\* in with a bare string on a string field: In received the one-element
\* sequence and returned normally.
C28_Witness ==
    /\ OnOperator(OpIn)
    /\ TheBuilder.Kind = "string"
    /\ TheFilter.Value = Str(S_a)
    /\ MethodCalls[1].arg = List(<<Str(S_a)>>)
    /\ ~failed
    /\ Len(result) = Len(query) + 1

\* ---------------------------------------------------------------- C29
\* The method of each string tag.
StringMethodOf(operator) ==
    CASE operator = OpContains -> "Contains"
      [] operator = OpStartsWith -> "StartsWith"
      [] operator = OpEndsWith -> "EndsWith"

\* C29: for the tags contains, startswith and endswith the call never fails;
\* the method of the tag is invoked exactly once, with the value itself when
\* it is a string and with the empty string when it is nil or of any other
\* type, and its predicate reaches Where: the filter is not dropped.
C29_StringTagsNeverFail ==
    \A operator \in {OpContains, OpStartsWith, OpEndsWith} :
      OnOperator(operator) =>
        /\ ~failed
        /\ Len(MethodCalls) = 1
        /\ MethodCalls[1].op = StringMethodOf(operator)
        /\ TheFilter.Value.t = "string" => MethodCalls[1].arg = TheFilter.Value
        /\ TheFilter.Value.t # "string" => MethodCalls[1].arg = Str(<<>>)
        /\ Len(WhereCalls) = 1
        /\ Len(result) = Len(query) + 1

\* contains with a boolean on a string field: Contains received the empty
\* string and its predicate was applied.
C29_Witness ==
    /\ OnOperator(OpContains)
    /\ TheBuilder.Kind = "string"
    /\ TheFilter.Value = Bool(TRUE)
    /\ MethodCalls[1].arg = Str(<<>>)
    /\ ~failed
    /\ result = Append(query, Atom(TheBuilder.predicates, "Contains", Str(<<>>)))

\* ---------------------------------------------------------------- C30
\* C30: for a page with Limit above zero and Total at or above zero whose
\* Offset is a non-negative multiple of Limit, HasNextPage answers true if
\* and only if PageNumber is below TotalPages; and for a page with Limit
\* above zero and Offset from zero up to but excluding Total, PageNumber
\* lies between 1 and TotalPages.
C30_PageMetadata ==
    /\ ( /\ Answers("HasNextPage")
         /\ params.page.Limit > 0
         /\ params.page.Total >= 0
         /\ params.page.Offset >= 0
         /\ Rem(params.page.Offset, params.page.Limit) = 0 ) =>
         (ret.b <=> Page_PageNumber(params.page) < Page_TotalPages(params.page))
    /\ ( /\ Answers("PageNumber")
         /\ params.page.Limit > 0
         /\ params.page.Offset >= 0
         /\ params.page.Offset < params.page.Total ) =>
         (1 <= ret.n /\ ret.n <= Page_TotalPages(params.page))

====
